---- MODULE Spec2Model ----
(***************************************************************************)
(* A model of the TOG front end and tree-walking evaluator:                *)
(*   - src/src/lexer.rs        tokenize                                    *)
(*   - src/src/interpreter.rs  Environment, Value, Interpreter             *)
(*   - src/src/stdlib.rs       call_builtin, value_to_string               *)
(* Runtime strings are sequences of characters (one-character TLA+         *)
(* strings, and one stand-in for U+00E9), so that byte length and          *)
(* character count can differ.                                             *)
(* Value::Float is left out: the model's numbers are integers.             *)
(***************************************************************************)
EXTENDS Integers, Sequences, FiniteSets, TLC

VARIABLES
    program,      \* Program.statements handed to Interpreter::interpret
    pc,           \* index of the next top-level statement of interpret's loop
    interpreter,  \* the Interpreter: frame arena, current environment, stdout
    status,       \* "running", or how interpret ended: "ok" | "error" | "abort" | "diverge"
    mainCalls,    \* history: how often interpret invoked main
    source,       \* tokenize: the input characters
    pos,          \* tokenize: number of characters consumed from `chars`
    tokens,       \* tokenize: the token vector
    lexState,     \* tokenize: "scan" | "ok" | "error"
    lexSteps,     \* history: iterations of tokenize's main loop so far
    opCall,       \* the operation last applied by the operator harness
    opResult,     \* and what it returned
    driver        \* main: the subcommand, its position, its output and exit

vars == <<program, pc, interpreter, status, mainCalls,
          source, pos, tokens, lexState, lexSteps, opCall, opResult,
          driver>>

interpVars == <<program, pc, interpreter, status, mainCalls>>
lexVars == <<source, pos, tokens, lexState, lexSteps>>
opVars == <<opCall, opResult>>
driverVars == <<driver>>

(***************************************************************************)
(* Bounds of the model.                                                    *)
(***************************************************************************)
\* Width of the modelled machine integer (i64 in the source, scaled down).
IntBits == 6
\* Deepest call nesting before the native stack is taken to be exhausted.
MaxDepth == 3
\* Iterations of one `while` loop before it is taken to diverge.
MaxIter == 6
\* Longest input handed to tokenize.
MaxSrcLen == 3
\* Iterations of tokenize's main loop that are followed.
MaxLexSteps == 5

RECURSIVE Pow2(_)
Pow2(n) == IF n = 0 THEN 1 ELSE 2 * Pow2(n - 1)

IntMax == Pow2(IntBits - 1) - 1
IntMin == 0 - Pow2(IntBits - 1)

\* Two's complement wrap-around of an exact result.
Wrap(n) == ((n - IntMin) % Pow2(IntBits)) + IntMin

(***************************************************************************)
(* Runtime values (interpreter.rs, enum Value).                            *)
(***************************************************************************)
IntV(n) == [t |-> "int", i |-> n]
BoolV(b) == [t |-> "bool", b |-> b]
StrV(cs) == [t |-> "str", s |-> cs]
ArrV(vs) == [t |-> "arr", a |-> vs]
StructV(name, fields) == [t |-> "struct", name |-> name, fields |-> fields]
FnV(name, params, body, closure) ==
    [t |-> "fn", name |-> name, params |-> params, body |-> body,
     closure |-> closure]
EnumV(enum_name, variant_name, data) ==
    [t |-> "enum", enum_name |-> enum_name, variant_name |-> variant_name,
     data |-> data]
NoneV == [t |-> "none"]

\* HashMap<String, Value> with no entry.
EmptyMap == [n \in {} |-> NoneV]

\* HashMap::insert
MapInsert(m, key, v) == [n \in DOMAIN m \cup {key} |-> IF n = key THEN v ELSE m[n]]

\* HashMap::remove
MapRemove(m, key) == [n \in DOMAIN m \ {key} |-> m[n]]

(***************************************************************************)
(* Results.  k = "ok": a value; "err": a TogError; "abort": the process    *)
(* ended inside the call (a Rust panic or an exhausted stack); "diverge":  *)
(* the call does not return.                                               *)
(***************************************************************************)
OkP(v) == [k |-> "ok", v |-> v]
ErrP(kind, msg) == [k |-> "err", kind |-> kind, msg |-> msg]
AbortP(msg) == [k |-> "abort", msg |-> msg]

(***************************************************************************)
(* Integer arithmetic of the build.  With overflow checks (a debug build)  *)
(* an overflowing + - * and unary - panics; without them it wraps.         *)
(***************************************************************************)
Arith(exact, checks) ==
    IF exact >= IntMin /\ exact <= IntMax THEN OkP(IntV(exact))
    ELSE IF checks THEN AbortP("attempt to compute with overflow")
    ELSE OkP(IntV(Wrap(exact)))

Abs(n) == IF n < 0 THEN 0 - n ELSE n

\* Rust's / on integers truncates toward zero.
TruncDiv(a, b) ==
    IF (a < 0) = (b < 0) THEN Abs(a) \div Abs(b) ELSE 0 - (Abs(a) \div Abs(b))

\* Rust's % takes the sign of the dividend.
TruncRem(a, b) == a - b * TruncDiv(a, b)

\* A right operand of 0 never reaches here: the Div arm returns its error first.
DivInt(a, b) ==
    IF a = IntMin /\ b = 0 - 1 THEN AbortP("attempt to divide with overflow")
    ELSE OkP(IntV(TruncDiv(a, b)))

RemInt(a, b) ==
    IF b = 0 THEN AbortP("attempt to calculate the remainder with a divisor of zero")
    ELSE IF a = IntMin /\ b = 0 - 1
    THEN AbortP("attempt to calculate the remainder with overflow")
    ELSE OkP(IntV(TruncRem(a, b)))

(***************************************************************************)
(* Integer to decimal text (i64::to_string), as a character sequence.      *)
(***************************************************************************)
Digit(d) == CASE d = 0 -> "0" [] d = 1 -> "1" [] d = 2 -> "2" [] d = 3 -> "3"
              [] d = 4 -> "4" [] d = 5 -> "5" [] d = 6 -> "6" [] d = 7 -> "7"
              [] d = 8 -> "8" [] OTHER -> "9"

RECURSIVE NatChars(_)
NatChars(n) == IF n < 10 THEN <<Digit(n)>> ELSE NatChars(n \div 10) \o <<Digit(n % 10)>>

IntChars(n) == IF n < 0 THEN <<"-">> \o NatChars(0 - n) ELSE NatChars(n)

\* A character sequence as one string: a line of stdout, a name.
RECURSIVE Flatten(_)
Flatten(cs) == IF cs = <<>> THEN "" ELSE Head(cs) \o Flatten(Tail(cs))

RECURSIVE JoinChars(_, _)
JoinChars(parts, sep) ==
    IF parts = <<>> THEN <<>>
    ELSE IF Len(parts) = 1 THEN parts[1]
    ELSE parts[1] \o sep \o JoinChars(Tail(parts), sep)

\* The model's one alphabetic character outside ASCII (U+00E9), two bytes in UTF-8.
EAcute == "<U+00E9>"

\* Bytes of one character in UTF-8.
Utf8Len(c) == IF c = EAcute THEN 2 ELSE 1

RECURSIVE ByteLen(_)
ByteLen(cs) == IF cs = <<>> THEN 0 ELSE Utf8Len(Head(cs)) + ByteLen(Tail(cs))

(***************************************************************************)
(* What the build and the process fix for one run: whether integer         *)
(* overflow is checked, and the order in which a HashMap of struct fields  *)
(* is iterated (RandomState: not fixed by the program; one order per run   *)
(* here).                                                                  *)
(***************************************************************************)
FieldOrders == {<<"x", "y">>, <<"y", "x">>}
Hosts == [overflowChecks : BOOLEAN, hashOrder : FieldOrders]

\* The entries of a field map in the order the host iterates them.
IterKeys(fields, order) == SelectSeq(order, LAMBDA n : n \in DOMAIN fields)

(***************************************************************************)
(* interpreter.rs: literal_to_value, is_truthy, value_to_string            *)
(***************************************************************************)
IntL(n) == [l |-> "int", n |-> n]
BoolL(b) == [l |-> "bool", b |-> b]
StrL(cs) == [l |-> "str", s |-> cs]
NoneL == [l |-> "none"]
ArrayL(elems) == [l |-> "array", elems |-> elems]

literal_to_value(lit) ==
    CASE lit.l = "int" -> IntV(lit.n)
      [] lit.l = "str" -> StrV(lit.s)
      [] lit.l = "bool" -> BoolV(lit.b)
      [] OTHER -> NoneV

is_truthy(value) ==
    ~ (value = BoolV(FALSE) \/ value = NoneV)

BoolChars(b) == IF b THEN <<"t", "r", "u", "e">> ELSE <<"f", "a", "l", "s", "e">>

RECURSIVE value_to_string(_, _)
value_to_string(value, order) ==
    CASE value.t = "int" -> IntChars(value.i)
      [] value.t = "str" -> value.s
      [] value.t = "bool" -> BoolChars(value.b)
      [] value.t = "arr" ->
            <<"[">> \o JoinChars([i \in 1..Len(value.a) |->
                                    value_to_string(value.a[i], order)],
                                 <<",", " ">>) \o <<"]">>
      [] value.t = "struct" ->
            LET keys == IterKeys(value.fields, order)
                parts == [i \in 1..Len(keys) |->
                            <<keys[i], ":", " ">>
                            \o value_to_string(value.fields[keys[i]], order)]
            IN  <<value.name, " ", "{", " ">> \o JoinChars(parts, <<",", " ">>)
                \o <<" ", "}">>
      [] value.t = "enum" ->
            <<value.enum_name, ":", ":", value.variant_name>>
            \o (IF value.data.some
                THEN <<"(">> \o value_to_string(value.data.x, order) \o <<")">>
                ELSE <<>>)
      [] value.t = "fn" -> <<"<", "f", "n", " ", value.name, ">">>
      [] OTHER -> <<"n", "o", "n", "e">>

(***************************************************************************)
(* stdlib.rs: value_to_string (used by to_string)                          *)
(***************************************************************************)
RECURSIVE stdlib_value_to_string(_, _)
stdlib_value_to_string(value, order) ==
    CASE value.t = "int" -> IntChars(value.i)
      [] value.t = "str" -> value.s
      [] value.t = "bool" -> BoolChars(value.b)
      [] value.t = "arr" ->
            <<"[">> \o JoinChars([i \in 1..Len(value.a) |->
                                    stdlib_value_to_string(value.a[i], order)],
                                 <<",", " ">>) \o <<"]">>
      [] value.t = "struct" ->
            LET keys == IterKeys(value.fields, order)
                parts == [i \in 1..Len(keys) |->
                            <<keys[i], ":", " ">>
                            \o stdlib_value_to_string(value.fields[keys[i]], order)]
            IN  <<value.name, " ", "{", " ">> \o JoinChars(parts, <<",", " ">>)
                \o <<" ", "}">>
      [] value.t = "enum" ->
            <<value.enum_name, ":", ":", value.variant_name>>
            \o (IF value.data.some
                THEN <<"(">> \o stdlib_value_to_string(value.data.x, order) \o <<")">>
                ELSE <<>>)
      [] value.t = "fn" ->
            <<"<", "f", "u", "n", "c", "t", "i", "o", "n", " ", value.name, ">">>
      [] OTHER -> <<"n", "o", "n", "e">>

(***************************************************************************)
(* interpreter.rs: Interpreter::evaluate_binary_op / evaluate_unary_op     *)
(***************************************************************************)
BinaryOps == {"Add", "Sub", "Mul", "Div", "Mod", "Eq", "Ne", "Lt", "Le", "Gt",
              "Ge", "And", "Or"}
UnaryOps == {"Not", "Neg"}

evaluate_binary_op(left, op, right, checks) ==
    CASE left.t = "int" /\ right.t = "int" ->
            LET a == left.i
                b == right.i
            IN  CASE op = "Add" -> Arith(a + b, checks)
                  [] op = "Sub" -> Arith(a - b, checks)
                  [] op = "Mul" -> Arith(a * b, checks)
                  [] op = "Div" ->
                        IF b = 0 THEN ErrP("RuntimeError", "Division by zero")
                        ELSE DivInt(a, b)
                  [] op = "Mod" -> RemInt(a, b)
                  [] op = "Eq" -> OkP(BoolV(a = b))
                  [] op = "Ne" -> OkP(BoolV(a # b))
                  [] op = "Lt" -> OkP(BoolV(a < b))
                  [] op = "Le" -> OkP(BoolV(a <= b))
                  [] op = "Gt" -> OkP(BoolV(a > b))
                  [] op = "Ge" -> OkP(BoolV(a >= b))
                  [] OTHER -> ErrP("TypeError", "Invalid operation")
      [] left.t = "str" /\ right.t = "str" /\ op = "Add" ->
            OkP(StrV(left.s \o right.s))
      [] left.t = "str" /\ right.t = "int" /\ op = "Add" ->
            OkP(StrV(left.s \o IntChars(right.i)))
      [] left.t = "int" /\ right.t = "str" /\ op = "Add" ->
            OkP(StrV(IntChars(left.i) \o right.s))
      [] left.t = "bool" /\ right.t = "bool" /\ op = "And" ->
            OkP(BoolV(left.b /\ right.b))
      [] left.t = "bool" /\ right.t = "bool" /\ op = "Or" ->
            OkP(BoolV(left.b \/ right.b))
      [] OTHER -> ErrP("TypeError", "Invalid operation")

evaluate_unary_op(op, value, checks) ==
    CASE op = "Not" /\ value.t = "bool" -> OkP(BoolV(~ value.b))
      [] op = "Neg" /\ value.t = "int" -> Arith(0 - value.i, checks)
      [] OTHER -> ErrP("TypeError", "Invalid unary operation")

(***************************************************************************)
(* interpreter.rs: the Expr::Index arm of evaluate, on evaluated operands  *)
(***************************************************************************)
index_value(array_val, index_val) ==
    CASE array_val.t = "arr" /\ index_val.t = "int" ->
            IF index_val.i < 0 \/ index_val.i >= Len(array_val.a)
            THEN ErrP("RuntimeError", "Array index out of bounds")
            ELSE OkP(array_val.a[index_val.i + 1])
      [] array_val.t = "str" /\ index_val.t = "int" ->
            \* the bound is s.len(), a byte count; chars().nth() counts characters
            IF index_val.i < 0 \/ index_val.i >= ByteLen(array_val.s)
            THEN ErrP("RuntimeError", "String index out of bounds")
            ELSE IF index_val.i < Len(array_val.s)
            THEN OkP(StrV(<<array_val.s[index_val.i + 1]>>))
            ELSE AbortP("called Option::unwrap() on a None value")
      [] OTHER -> ErrP("RuntimeError", "Cannot index")

(***************************************************************************)
(* ast.rs: Expr, Stmt, MethodDecl.  Option<Box<Expr>> is Some(x) or None.  *)
(***************************************************************************)
Some(x) == [some |-> TRUE, x |-> x]
None == [some |-> FALSE]

Lit(lit) == [e |-> "lit", lit |-> lit]
Var(name) == [e |-> "var", name |-> name]
StructLiteral(name, fields) == [e |-> "structlit", name |-> name, fields |-> fields]
FieldAccess(object, field) == [e |-> "field", object |-> object, field |-> field]
Bin(left, op, right) == [e |-> "bin", left |-> left, op |-> op, right |-> right]
Un(op, expr) == [e |-> "un", op |-> op, expr |-> expr]
Call(callee, args) == [e |-> "call", callee |-> callee, args |-> args]
Block(statements) == [e |-> "block", statements |-> statements]
If(condition, then_branch, else_branch) ==
    [e |-> "if", condition |-> condition, then_branch |-> then_branch,
     else_branch |-> else_branch]
While(condition, body) == [e |-> "while", condition |-> condition, body |-> body]
Function(name, params, body) ==
    [e |-> "fn", name |-> name, params |-> params, body |-> body]
Index(array, index) == [e |-> "index", array |-> array, index |-> index]
For(variable, iterable, body) ==
    [e |-> "for", variable |-> variable, iterable |-> iterable, body |-> body]
EnumVariant(enum_name, variant_name, data) ==
    [e |-> "enumvariant", enum_name |-> enum_name, variant_name |-> variant_name,
     data |-> data]
Match(expr, arms) == [e |-> "match", expr |-> expr, arms |-> arms]

\* MatchArm and Pattern; `binding` of an enum-variant pattern is an Option.
MatchArm(pattern, body) == [pattern |-> pattern, body |-> body]
LiteralPattern(lit) == [p |-> "literal", lit |-> lit]
VariablePattern(name) == [p |-> "variable", name |-> name]
WildcardPattern == [p |-> "wildcard"]
EnumVariantPattern(enum_name, variant_name, binding) ==
    [p |-> "enumvariant", enum_name |-> enum_name, variant_name |-> variant_name,
     binding |-> binding]

ExprS(expr) == [s |-> "expr", expr |-> expr]
Let(name, value) == [s |-> "let", name |-> name, value |-> value]
Assign(name, value) == [s |-> "assign", name |-> name, value |-> value]
AssignField(object, field, value) ==
    [s |-> "assignfield", object |-> object, field |-> field, value |-> value]
StructDef(name, fields, methods) ==
    [s |-> "structdef", name |-> name, fields |-> fields, methods |-> methods]
EnumDef(name, variants) == [s |-> "enumdef", name |-> name, variants |-> variants]
Return(value) == [s |-> "return", value |-> value]
Break == [s |-> "break"]
Continue == [s |-> "continue"]

MethodDecl(name, params, body) == [name |-> name, params |-> params, body |-> body]

(***************************************************************************)
(* interpreter.rs: Environment.  Rc<RefCell<Environment>> is an index into *)
(* the arena `frames`; enclosing = 0 is None.  A frame is never freed      *)
(* while something can still reach it, so the arena only grows.            *)
(***************************************************************************)
Environment_new(enclosing) == [enclosing |-> enclosing, values |-> EmptyMap]

\* The frame on the chain from `env` whose binding `get` returns; 0 if none.
RECURSIVE resolve(_, _, _)
resolve(frames, env, name) ==
    IF name \in DOMAIN frames[env].values THEN env
    ELSE IF frames[env].enclosing # 0 THEN resolve(frames, frames[env].enclosing, name)
    ELSE 0

\* A define that writes to the frame on the chain that binds the name already.
define_on_chain(frames, env, name, value) ==
    [frames EXCEPT ![IF resolve(frames, env, name) = 0 THEN env
                     ELSE resolve(frames, env, name)].values = MapInsert(@, name, value)]

define(frames, env, name, value) ==
    [frames EXCEPT ![env].values = MapInsert(@, name, value)]

RECURSIVE get(_, _, _)
get(frames, env, name) ==
    IF name \in DOMAIN frames[env].values THEN OkP(frames[env].values[name])
    ELSE IF frames[env].enclosing # 0 THEN get(frames, frames[env].enclosing, name)
    ELSE ErrP("RuntimeError", "Undefined variable")

RECURSIVE assign(_, _, _, _)
assign(frames, env, name, value) ==
    IF name \in DOMAIN frames[env].values
    THEN [k |-> "ok", frames |-> [frames EXCEPT ![env].values = MapInsert(@, name, value)]]
    ELSE IF frames[env].enclosing # 0
    THEN assign(frames, frames[env].enclosing, name, value)
    ELSE ErrP("RuntimeError", "Cannot assign to undefined variable")

remove(frames, env, name) ==
    [frames EXCEPT ![env].values = MapRemove(@, name)]

(***************************************************************************)
(* Results of the evaluator: a result of the pure kind, the (value,        *)
(* ControlFlow) pair of execute_stmt and evaluate_block, and the           *)
(* interpreter as the call left it.                                        *)
(***************************************************************************)
Flow(v, flow, s) == [k |-> "ok", v |-> v, flow |-> flow, s |-> s]
Ok(v, s) == Flow(v, "Normal", s)
Err(kind, msg, s) == [k |-> "err", kind |-> kind, msg |-> msg, s |-> s]
Abort(msg, s) == [k |-> "abort", msg |-> msg, s |-> s]
Diverge(s) == [k |-> "diverge", s |-> s]

Lift(p, s) ==
    IF p.k = "ok" THEN Ok(p.v, s)
    ELSE IF p.k = "err" THEN Err(p.kind, p.msg, s)
    ELSE Abort(p.msg, s)

(***************************************************************************)
(* Interpreter::new.  Beside the struct's fields the record carries        *)
(* stdout (`out`, one entry per printed line), the host of the run, the    *)
(* call depth, and the history `h` that the properties read:               *)
(*   returned     depths of the activations in which a `return` ran        *)
(*   afterReturn  a statement ran in an activation after its `return`      *)
(*   loops        loops of the current activation that enclose the         *)
(*                statement being executed                                 *)
(*   sigPending   "none", or where the Break/Continue signal in flight     *)
(*                was raised: "inLoop" or "outside"                        *)
(*   loopSigErr   a signal raised inside a loop became a runtime error     *)
(*   forLeak      a `for` ended leaving its variable bound differently     *)
(*   error        <<kind, message>> of the TogError interpret returned     *)
(*   selfRebound  an instance method body started with `self` resolving    *)
(*                to something else than the object of the call            *)
(*   shadowed     a call whose callee is a built-in's name went on to the   *)
(*                function value bound to that name                        *)
(*   forErrLeak   a `for` ended in an error leaving its variable bound     *)
(*                differently than before the loop                         *)
(*   lost         a failure of a built-in was not the result of the call   *)
(*   matchLeak    after a binding match arm the bound name resolved to     *)
(*                another value than before the match, or to one where it  *)
(*                was unbound                                              *)
(*   callMoved    a call expression ended with another frame current than  *)
(*                the one current before it                                *)
(***************************************************************************)
NoHistory ==
    [returned |-> {}, afterReturn |-> FALSE, loops |-> 0, sigPending |-> "none",
     loopSigErr |-> FALSE, forLeak |-> FALSE, error |-> <<>>,
     selfRebound |-> FALSE, shadowed |-> FALSE, forErrLeak |-> FALSE,
     lost |-> FALSE, matchLeak |-> FALSE, callMoved |-> FALSE]

Interpreter_new(h) ==
    [frames |-> <<Environment_new(0)>>, environment |-> 1,
     struct_defs |-> EmptyMap, enum_defs |-> EmptyMap, out |-> <<>>, host |-> h, depth |-> 0,
     h |-> NoHistory]

\* Rc::new(RefCell::new(Environment::new(Some(parent)))) made the current one.
PushFrame(s, parent) ==
    [s EXCEPT !.frames = Append(@, Environment_new(parent)),
              !.environment = Len(s.frames) + 1]

\* for (param, arg) in params.iter().zip(args.iter()) { define(param.name, arg) }
RECURSIVE BindParams(_, _, _, _)
BindParams(frames, env, params, args) ==
    IF params = <<>> \/ args = <<>> THEN frames
    ELSE BindParams(define(frames, env, Head(params), Head(args)), env,
                    Tail(params), Tail(args))

\* methods.iter().find(|m| m.name == *method_name): the first match, if any.
RECURSIVE FindMethod(_, _)
FindMethod(methods, name) ==
    IF methods = <<>> THEN None
    ELSE IF Head(methods).name = name THEN Some(Head(methods))
    ELSE FindMethod(Tail(methods), name)

(***************************************************************************)
(* stdlib.rs: call_builtin, for the built-ins the programs of the model    *)
(* use; every other name takes the final arm.                              *)
(***************************************************************************)
UnknownBuiltin == "Unknown builtin function"

RECURSIVE IntRange(_, _)
IntRange(start, end) ==
    IF start >= end THEN <<>> ELSE <<IntV(start)>> \o IntRange(start + 1, end)

call_builtin(name, args, order) ==
    CASE name = "len" ->
            IF Len(args) # 1 THEN ErrP("RuntimeError", "len() expects 1 argument")
            ELSE IF args[1].t = "str" THEN OkP(IntV(ByteLen(args[1].s)))
            ELSE IF args[1].t = "arr" THEN OkP(IntV(Len(args[1].a)))
            ELSE ErrP("TypeError", "len() expects string or array")
      [] name = "to_string" ->
            IF Len(args) # 1 THEN ErrP("RuntimeError", "to_string() expects 1 argument")
            ELSE OkP(StrV(stdlib_value_to_string(args[1], order)))
      [] name = "range" ->
            IF Len(args) = 1
            THEN IF args[1].t = "int"
                 THEN IF args[1].i < 0
                      THEN ErrP("RuntimeError", "range() end must be non-negative")
                      ELSE OkP(ArrV(IntRange(0, args[1].i)))
                 ELSE ErrP("TypeError", "range() expects Int argument")
            ELSE IF Len(args) = 2
            THEN IF args[1].t = "int" /\ args[2].t = "int"
                 THEN IF args[1].i > args[2].i
                      THEN ErrP("RuntimeError", "range() start must be <= end")
                      ELSE OkP(ArrV(IntRange(args[1].i, args[2].i)))
                 ELSE ErrP("TypeError", "range() expects Int arguments")
            ELSE ErrP("RuntimeError", "range() expects 1 or 2 arguments")
      [] name = "expect" ->
            IF Len(args) # 2 THEN ErrP("RuntimeError", "expect() expects 2 arguments")
            ELSE IF args[2].t # "str"
            THEN ErrP("TypeError", "expect() second argument must be a string")
            ELSE IF args[1].t # "enum"
            THEN ErrP("TypeError", "expect() expects Result or Option enum")
            ELSE LET msg == Flatten(args[2].s)
                     e == args[1]
                 IN  IF \/ e.enum_name = "Result" /\ e.variant_name = "Ok"
                        \/ e.enum_name = "Option" /\ e.variant_name = "Some"
                     THEN IF e.data.some THEN OkP(e.data.x)
                          ELSE ErrP("RuntimeError", msg)
                     ELSE IF \/ e.enum_name = "Result" /\ e.variant_name = "Err"
                             \/ e.enum_name = "Option" /\ e.variant_name = "None"
                     THEN ErrP("RuntimeError", msg)
                     ELSE ErrP("TypeError", "expect() expects Result or Option")
      [] OTHER -> ErrP("RuntimeError", UnknownBuiltin)

\* The names call_builtin (as modelled) and the inline `print` arm recognise.
BuiltinNames == {"print", "len", "to_string", "range", "expect"}

\* The text a program passes to expect() to be its failure message.
Boom == <<"b", "o", "o", "m">>
UnknownBuiltinText ==
    <<"U", "n", "k", "n", "o", "w", "n", " ", "b", "u", "i", "l", "t", "i", "n">>

\* msg.contains("Unknown builtin"), over the messages of the model: the final
\* arm's, and the program's own text where it is a built-in's message.
contains_unknown_builtin(msg) == msg \in {UnknownBuiltin, Flatten(UnknownBuiltinText)}

IsUnknownBuiltin(p) ==
    p.k = "err" /\ p.kind = "RuntimeError" /\ contains_unknown_builtin(p.msg)

(***************************************************************************)
(* interpreter.rs: Interpreter::execute_stmt, evaluate_block, evaluate     *)
(***************************************************************************)
\* The methods of Interpreter call one another through `run`, which
\* dispatches on the method named: self_evaluate(expr, s) is self.evaluate(expr)
\* on the interpreter s.
RECURSIVE run(_, _)

self_evaluate(expr, s) == run([op |-> "evaluate", expr |-> expr], s)
self_execute_stmt(stmt, s) == run([op |-> "execute_stmt", stmt |-> stmt], s)
self_evaluate_block(statements, s) ==
    run([op |-> "evaluate_block", statements |-> statements], s)
self_EvalList(exprs, s) == run([op |-> "EvalList", exprs |-> exprs], s)
self_while_loop(condition, body, s, fuel) ==
    run([op |-> "while_loop", condition |-> condition, body |-> body, fuel |-> fuel], s)
self_for_loop(variable, values, body, s) ==
    run([op |-> "for_loop", variable |-> variable, values |-> values, body |-> body], s)
self_match_arms(arms, value, s) ==
    run([op |-> "match_arms", arms |-> arms, value |-> value], s)
self_assign_value_into(target, replacement, s) ==
    run([op |-> "assign_value_into", target |-> target, replacement |-> replacement], s)

\* args.iter().map(|arg| self.evaluate(arg)).collect::<Result<Vec<_>, _>>()
EvalList(exprs, s) ==
    IF exprs = <<>> THEN [k |-> "ok", vs |-> <<>>, s |-> s]
    ELSE LET r == self_evaluate(Head(exprs), s)
         IN  IF r.k # "ok" THEN r
             ELSE LET rest == self_EvalList(Tail(exprs), r.s)
                  IN  IF rest.k # "ok" THEN rest
                      ELSE [k |-> "ok", vs |-> <<r.v>> \o rest.vs, s |-> rest.s]

\* A call that puts the caller's frame back only when the body yields a value.
invoke_body_restore_on_value(body, s, old_env) ==
    IF s.depth >= MaxDepth THEN Abort("stack overflow", s)
    ELSE LET s1 == [s EXCEPT !.depth = @ + 1,
                             !.h.returned = @ \ {s.depth + 1},
                             !.h.loops = 0]
             r == self_evaluate(body, s1)
         IN  IF r.k # "ok" THEN r
             ELSE [r EXCEPT !.s.environment = old_env,
                            !.s.depth = s.depth,
                            !.s.h.loops = s.h.loops]

\* let result = self.evaluate(&body); self.environment = old_env; return result;
\* `s` is the interpreter with the new frame current and the parameters bound.
\* One more activation than MaxDepth exhausts the native stack.
invoke_body(body, s, old_env) ==
    IF s.depth >= MaxDepth THEN Abort("stack overflow", s)
    ELSE LET s1 == [s EXCEPT !.depth = @ + 1,
                             !.h.returned = @ \ {s.depth + 1},
                             !.h.loops = 0]
             r == self_evaluate(body, s1)
         IN  IF r.k \in {"abort", "diverge"} THEN r
             ELSE [r EXCEPT !.s.environment = old_env,
                            !.s.depth = s.depth,
                            !.s.h.loops = s.h.loops]

\* A static (bind_self = FALSE) or instance method call: a new frame that
\* encloses the caller's current frame.
call_method(method, bind_self, obj_val, arg_values, s) ==
    LET old_env == s.environment
        s1 == PushFrame(s, old_env)
        f1 == IF bind_self THEN define(s1.frames, s1.environment, "self", obj_val)
              ELSE s1.frames
        f2 == BindParams(f1, s1.environment, method.params, arg_values)
        rebound == bind_self /\ get(f2, s1.environment, "self") # OkP(obj_val)
    IN  invoke_body(method.body,
                    [s1 EXCEPT !.frames = f2, !.h.selfRebound = @ \/ rebound],
                    old_env)

\* A call frame hung under the caller's frame: dynamic scoping.
call_frame_parent_caller(closure, old_env) == old_env

\* Environment::new(Some(closure)): the parent of the frame a function value's
\* body runs in, given the value's closure and the caller's frame.
call_frame_parent(closure, old_env) == closure

\* let callee_val = self.evaluate(callee)?; match callee_val { ... }
call_function(callee, arg_values, s) ==
    LET c == self_evaluate(callee, s)
    IN  IF c.k # "ok" THEN c
        ELSE IF c.v.t # "fn" THEN Err("TypeError", "Can only call functions", c.s)
        ELSE IF Len(arg_values) # Len(c.v.params)
        THEN Err("RuntimeError", "Function expects a different number of arguments", c.s)
        ELSE LET old_env == c.s.environment
                 s1 == PushFrame(c.s, call_frame_parent(c.v.closure, old_env))
                 f1 == BindParams(s1.frames, s1.environment, c.v.params, arg_values)
             IN  invoke_body(c.v.body, [s1 EXCEPT !.frames = f1], old_env)

\* The built-in dispatch, then the function value call.
call_builtin_or_function(callee, arg_values, s) ==
    IF callee.e = "var"
    THEN IF callee.name = "print"
         THEN LET texts == [i \in 1..Len(arg_values) |->
                              value_to_string(arg_values[i], s.host.hashOrder)]
                  line == Flatten(JoinChars(texts, <<>>))
              IN  Ok(NoneV, [s EXCEPT !.out = Append(@, line)])
         ELSE LET b == call_builtin(callee.name, arg_values, s.host.hashOrder)
              IN  IF b.k = "ok" THEN Ok(b.v, s)
                  ELSE IF IsUnknownBuiltin(b)
                  THEN LET r == call_function(callee, arg_values,
                                     [s EXCEPT !.h.shadowed =
                                                   @ \/ callee.name \in BuiltinNames])
                       IN  IF /\ callee.name \in BuiltinNames
                              /\ r.k \in {"ok", "err"}
                              /\ ~ (r.k = "err" /\ r.kind = b.kind /\ r.msg = b.msg)
                           THEN [r EXCEPT !.s.h.lost = TRUE]
                           ELSE r
                  ELSE Lift(b, s)
    ELSE call_function(callee, arg_values, s)

\* The Expr::Call arm once the arguments are evaluated.
evaluate_call(callee, arg_values, s) ==
    IF callee.e = "field"
    THEN LET static ==
                 IF callee.object.e = "var" /\ callee.object.name \in DOMAIN s.struct_defs
                 THEN FindMethod(s.struct_defs[callee.object.name].methods, callee.field)
                 ELSE None
         IN  IF static.some
             THEN call_method(static.x, FALSE, NoneV, arg_values, s)
             ELSE LET o == self_evaluate(callee.object, s)
                  IN  IF o.k # "ok" THEN o
                      ELSE IF o.v.t = "struct"
                      THEN LET m == IF o.v.name \in DOMAIN o.s.struct_defs
                                    THEN FindMethod(o.s.struct_defs[o.v.name].methods,
                                                    callee.field)
                                    ELSE None
                           IN  IF m.some
                               THEN call_method(m.x, TRUE, o.v, arg_values, o.s)
                               ELSE Err("RuntimeError", "Unknown method", o.s)
                      ELSE call_builtin_or_function(callee, arg_values, o.s)
    ELSE call_builtin_or_function(callee, arg_values, s)

\* One run of a loop body: a Block goes through evaluate_block, which hands
\* the ControlFlow to the loop; any other body through evaluate.
loop_body(body, s) ==
    LET s1 == [s EXCEPT !.h.loops = @ + 1]
        r == IF body.e = "block" THEN self_evaluate_block(body.statements, s1)
             ELSE self_evaluate(body, s1)
    IN  IF r.k # "ok" THEN r
        ELSE [r EXCEPT !.s.h.loops = s.h.loops,
                       !.s.h.sigPending = "none"]

\* while is_truthy(&self.evaluate(condition)?) { ... }; `fuel` iterations are
\* followed, a loop that needs more is taken not to end.
while_loop(condition, body, s, fuel) ==
    LET c == self_evaluate(condition, s)
    IN  IF c.k # "ok" THEN c
        ELSE IF ~ is_truthy(c.v) THEN Ok(NoneV, c.s)
        ELSE IF fuel = 0 THEN Diverge(c.s)
        ELSE LET r == loop_body(body, c.s)
             IN  IF r.k # "ok" THEN r
                 ELSE IF r.flow = "Break" THEN Ok(NoneV, r.s)
                 ELSE self_while_loop(condition, body, r.s, fuel - 1)

\* for val in values { ... }
for_loop(variable, values, body, s) ==
    IF values = <<>> THEN Ok(NoneV, s)
    ELSE LET old_val == get(s.frames, s.environment, variable)
             s1 == [s EXCEPT !.frames = define(@, s.environment, variable, Head(values))]
             r == loop_body(body, s1)
         IN  IF r.k # "ok" THEN r
             ELSE IF r.flow = "Break" THEN Ok(NoneV, r.s)
             ELSE IF r.flow = "Continue"
             THEN self_for_loop(variable, Tail(values), body, r.s)
             ELSE IF old_val.k = "ok"
             THEN LET a == assign(r.s.frames, r.s.environment, variable, old_val.v)
                  IN  IF a.k # "ok" THEN Lift(a, r.s)
                      ELSE self_for_loop(variable, Tail(values), body,
                                    [r.s EXCEPT !.frames = a.frames])
             ELSE self_for_loop(variable, Tail(values), body,
                           [r.s EXCEPT !.frames = remove(@, r.s.environment, variable)])

\* match_pattern: whether the pattern accepts the value (it never fails).
match_pattern(pattern, value) ==
    CASE pattern.p = "wildcard" -> TRUE
      [] pattern.p = "literal" -> literal_to_value(pattern.lit) = value
      [] pattern.p = "variable" -> TRUE
      [] pattern.p = "enumvariant" ->
            /\ value.t = "enum"
            /\ pattern.enum_name = value.enum_name
            /\ pattern.variant_name = value.variant_name

\* An arm that puts the old binding back only when its body yields a value.
bound_arm_restore_on_value(name, value, body, s) ==
    LET old_val == get(s.frames, s.environment, name)
        s1 == [s EXCEPT !.frames = define(@, s.environment, name, value)]
        result == self_evaluate(body, s1)
    IN  IF result.k # "ok" THEN result
        ELSE [result EXCEPT !.s.frames =
                IF old_val.k = "ok"
                THEN assign(result.s.frames, result.s.environment, name, old_val.v).frames
                ELSE remove(result.s.frames, result.s.environment, name)]

\* An arm whose pattern binds `name`: old_val = get(name).ok(); define; evaluate
\* the body; assign(name, old)? or remove(name); return result.
bound_arm(name, value, body, s) ==
    LET old_val == get(s.frames, s.environment, name)
        s1 == [s EXCEPT !.frames = define(@, s.environment, name, value)]
        result == self_evaluate(body, s1)
    IN  IF result.k \notin {"ok", "err"} THEN result
        ELSE LET env == result.s.environment
                 restored ==
                     IF old_val.k = "ok"
                     THEN assign(result.s.frames, env, name, old_val.v)
                     ELSE [k |-> "ok", frames |-> remove(result.s.frames, env, name)]
             IN  IF restored.k # "ok" THEN Lift(restored, result.s)
                 ELSE [result EXCEPT
                         !.s.frames = restored.frames,
                         !.s.h.matchLeak =
                             @ \/ get(restored.frames, env, name) # old_val]

\* for arm in arms { if self.match_pattern(&arm.pattern, &value)? { ... return } }
match_arms(arms, value, s) ==
    IF arms = <<>>
    THEN Err("RuntimeError", "No matching pattern in match expression", s)
    ELSE LET arm == Head(arms)
         IN  IF ~ match_pattern(arm.pattern, value)
             THEN self_match_arms(Tail(arms), value, s)
             ELSE IF arm.pattern.p = "variable"
             THEN bound_arm(arm.pattern.name, value, arm.body, s)
             ELSE IF /\ arm.pattern.p = "enumvariant"
                     /\ arm.pattern.binding.some
                     /\ value.t = "enum"
                     /\ value.data.some
             THEN bound_arm(arm.pattern.binding.x, value.data.x, arm.body, s)
             ELSE self_evaluate(arm.body, s)

\* A struct rebuilt with the assigned field alone.
set_struct_field_alone(struct_val, field, new_val) ==
    IF struct_val.t = "struct"
    THEN OkP(StructV(struct_val.name, MapInsert(EmptyMap, field, new_val)))
    ELSE ErrP("RuntimeError", "Cannot assign field to non-struct value")

\* fields.insert(field, new_val) on a Value::Struct; an error on anything else.
set_struct_field(struct_val, field, new_val) ==
    IF struct_val.t = "struct"
    THEN OkP(StructV(struct_val.name, MapInsert(struct_val.fields, field, new_val)))
    ELSE ErrP("RuntimeError", "Cannot assign field to non-struct value")

assign_value_into(target, replacement, s) ==
    CASE target.e = "var" ->
            LET a == assign(s.frames, s.environment, target.name, replacement)
            IN  IF a.k # "ok" THEN Lift(a, s)
                ELSE Ok(NoneV, [s EXCEPT !.frames = a.frames])
      [] target.e = "field" ->
            LET parent_val == self_evaluate(target.object, s)
            IN  IF parent_val.k # "ok" THEN parent_val
                ELSE LET updated_parent ==
                             set_struct_field(parent_val.v, target.field, replacement)
                     IN  IF updated_parent.k # "ok" THEN Lift(updated_parent, parent_val.s)
                         ELSE self_assign_value_into(target.object, updated_parent.v,
                                                     parent_val.s)
      [] OTHER -> Err("RuntimeError", "Invalid assignment target", s)

assign_field_chain(target, field, new_value, s) ==
    LET obj_val == self_evaluate(target, s)
    IN  IF obj_val.k # "ok" THEN obj_val
        ELSE LET updated_obj == set_struct_field(obj_val.v, field, new_value)
             IN  IF updated_obj.k # "ok" THEN Lift(updated_obj, obj_val.s)
                 ELSE self_assign_value_into(target, updated_obj.v, obj_val.s)

\* A function value that captures the global frame, whatever frame is current.
captured_environment_global(s) == 1

\* closure: Rc::clone(&self.environment): the frame a function value captures.
captured_environment(s) == s.environment

\* The field map of a struct literal: map.insert per field, in source order.
RECURSIVE InsertAll(_, _, _)
InsertAll(map, fields, vs) ==
    IF fields = <<>> THEN map
    ELSE InsertAll(MapInsert(map, Head(fields).name, Head(vs)), Tail(fields), Tail(vs))

evaluate(expr, s) ==
    CASE expr.e = "lit" ->
            IF expr.lit.l = "array"
            THEN LET r == self_EvalList(expr.lit.elems, s)
                 IN  IF r.k # "ok" THEN r ELSE Ok(ArrV(r.vs), r.s)
            ELSE Ok(literal_to_value(expr.lit), s)
      [] expr.e = "structlit" ->
            IF expr.name \notin DOMAIN s.struct_defs
            THEN Err("RuntimeError", "Unknown struct", s)
            ELSE LET r == self_EvalList([i \in 1..Len(expr.fields) |-> expr.fields[i].value], s)
                 IN  IF r.k # "ok" THEN r
                     ELSE LET map == InsertAll(EmptyMap, expr.fields, r.vs)
                              field_defs == s.struct_defs[expr.name].fields
                          IN  IF \E i \in 1..Len(field_defs) : field_defs[i] \notin DOMAIN map
                              THEN Err("RuntimeError", "Missing field in struct literal", r.s)
                              ELSE Ok(StructV(expr.name, map), r.s)
      [] expr.e = "enumvariant" ->
            IF expr.enum_name \notin DOMAIN s.enum_defs
            THEN Err("RuntimeError", "Unknown enum", s)
            ELSE IF expr.data.some
            THEN LET d == self_evaluate(expr.data.x, s)
                 IN  IF d.k # "ok" THEN d
                     ELSE Ok(EnumV(expr.enum_name, expr.variant_name, Some(d.v)), d.s)
            ELSE Ok(EnumV(expr.enum_name, expr.variant_name, None), s)
      [] expr.e = "var" -> Lift(get(s.frames, s.environment, expr.name), s)
      [] expr.e = "field" ->
            LET o == self_evaluate(expr.object, s)
            IN  IF o.k # "ok" THEN o
                ELSE IF o.v.t # "struct"
                THEN Err("RuntimeError", "Field access on non-struct value", o.s)
                ELSE IF expr.field \in DOMAIN o.v.fields
                THEN Ok(o.v.fields[expr.field], o.s)
                ELSE Err("RuntimeError", "Field not found", o.s)
      [] expr.e = "bin" ->
            LET l == self_evaluate(expr.left, s)
            IN  IF l.k # "ok" THEN l
                ELSE LET r == self_evaluate(expr.right, l.s)
                     IN  IF r.k # "ok" THEN r
                         ELSE Lift(evaluate_binary_op(l.v, expr.op, r.v,
                                                      s.host.overflowChecks), r.s)
      [] expr.e = "un" ->
            LET v == self_evaluate(expr.expr, s)
            IN  IF v.k # "ok" THEN v
                ELSE Lift(evaluate_unary_op(expr.op, v.v, s.host.overflowChecks), v.s)
      [] expr.e = "call" ->
            LET a == self_EvalList(expr.args, s)
            IN  IF a.k # "ok" THEN a
                ELSE LET r == evaluate_call(expr.callee, a.vs, a.s)
                     IN  IF r.k \notin {"ok", "err"} THEN r
                         ELSE [r EXCEPT !.s.h.callMoved =
                                          @ \/ (r.s.environment # s.environment)]
      [] expr.e = "block" ->
            LET r == self_evaluate_block(expr.statements, s)
            IN  IF r.k # "ok" THEN r
                ELSE IF r.flow # "Normal"
                THEN Err("RuntimeError", r.flow \o " outside of loop",
                         [r.s EXCEPT !.h.loopSigErr = @ \/ (r.s.h.sigPending = "inLoop"),
                                     !.h.sigPending = "none"])
                ELSE Ok(r.v, r.s)
      [] expr.e = "if" ->
            LET c == self_evaluate(expr.condition, s)
            IN  IF c.k # "ok" THEN c
                ELSE IF is_truthy(c.v) THEN self_evaluate(expr.then_branch, c.s)
                ELSE IF expr.else_branch.some THEN self_evaluate(expr.else_branch.x, c.s)
                ELSE Ok(NoneV, c.s)
      [] expr.e = "while" -> self_while_loop(expr.condition, expr.body, s, MaxIter)
      [] expr.e = "for" ->
            LET it == self_evaluate(expr.iterable, s)
            IN  IF it.k # "ok" THEN it
                ELSE IF it.v.t \notin {"arr", "str"}
                THEN Err("TypeError", "Expected iterable in for loop", it.s)
                ELSE LET values == IF it.v.t = "arr" THEN it.v.a
                                   ELSE [i \in 1..Len(it.v.s) |-> StrV(<<it.v.s[i]>>)]
                         before == get(it.s.frames, it.s.environment, expr.variable)
                         r == self_for_loop(expr.variable, values, expr.body, it.s)
                     IN  IF r.k = "err"
                         THEN [r EXCEPT !.s.h.forErrLeak =
                                 @ \/ (get(r.s.frames, r.s.environment, expr.variable)
                                        # before)]
                         ELSE IF r.k # "ok" THEN r
                         ELSE [r EXCEPT !.s.h.forLeak =
                                 @ \/ (get(r.s.frames, r.s.environment, expr.variable)
                                        # before)]
      [] expr.e = "match" ->
            LET v == self_evaluate(expr.expr, s)
            IN  IF v.k # "ok" THEN v ELSE self_match_arms(expr.arms, v.v, v.s)
      [] expr.e = "fn" ->
            LET func_value == FnV(expr.name, expr.params, expr.body,
                                  captured_environment(s))
            IN  Ok(func_value,
                   [s EXCEPT !.frames = define(@, s.environment, expr.name, func_value)])
      [] expr.e = "index" ->
            LET a == self_evaluate(expr.array, s)
            IN  IF a.k # "ok" THEN a
                ELSE LET i == self_evaluate(expr.index, a.s)
                     IN  IF i.k # "ok" THEN i
                         ELSE Lift(index_value(a.v, i.v), i.s)

execute_stmt(stmt, s0) ==
    LET s == [s0 EXCEPT !.h.afterReturn = @ \/ (s0.depth > 0 /\ s0.depth \in s0.h.returned)]
    IN  CASE stmt.s = "expr" -> self_evaluate(stmt.expr, s)
          [] stmt.s = "let" ->
                LET r == self_evaluate(stmt.value, s)
                IN  IF r.k # "ok" THEN r
                    ELSE Ok(r.v, [r.s EXCEPT !.frames =
                                    define(@, r.s.environment, stmt.name, r.v)])
          [] stmt.s = "assign" ->
                LET r == self_evaluate(stmt.value, s)
                IN  IF r.k # "ok" THEN r
                    ELSE LET a == assign(r.s.frames, r.s.environment, stmt.name, r.v)
                         IN  IF a.k # "ok" THEN Lift(a, r.s)
                             ELSE Ok(r.v, [r.s EXCEPT !.frames = a.frames])
          [] stmt.s = "assignfield" ->
                LET new_val == self_evaluate(stmt.value, s)
                IN  IF new_val.k # "ok" THEN new_val
                    ELSE LET a == assign_field_chain(stmt.object, stmt.field,
                                                     new_val.v, new_val.s)
                         IN  IF a.k # "ok" THEN a ELSE Ok(NoneV, a.s)
          [] stmt.s = "structdef" ->
                Ok(NoneV, [s EXCEPT !.struct_defs =
                             MapInsert(@, stmt.name,
                                       [fields |-> stmt.fields, methods |-> stmt.methods])])
          [] stmt.s = "enumdef" ->
                Ok(NoneV, [s EXCEPT !.enum_defs = MapInsert(@, stmt.name, stmt.variants)])
          [] stmt.s = "return" ->
                IF stmt.value.some
                THEN LET r == self_evaluate(stmt.value.x, s)
                     IN  IF r.k # "ok" THEN r
                         ELSE Ok(r.v, [r.s EXCEPT !.h.returned = @ \cup {r.s.depth}])
                ELSE Ok(NoneV, [s EXCEPT !.h.returned = @ \cup {s.depth}])
          [] stmt.s = "break" ->
                Flow(NoneV, "Break",
                     [s EXCEPT !.h.sigPending = IF s.h.loops > 0 THEN "inLoop" ELSE "outside"])
          [] stmt.s = "continue" ->
                Flow(NoneV, "Continue",
                     [s EXCEPT !.h.sigPending = IF s.h.loops > 0 THEN "inLoop" ELSE "outside"])

evaluate_block(statements, s) ==
    IF statements = <<>> THEN Ok(NoneV, s)
    ELSE LET r == self_execute_stmt(Head(statements), s)
         IN  IF r.k # "ok" THEN r
             ELSE IF r.flow # "Normal" \/ Len(statements) = 1 THEN r
             ELSE self_evaluate_block(Tail(statements), r.s)

run(call, s) ==
    CASE call.op = "evaluate" -> evaluate(call.expr, s)
      [] call.op = "execute_stmt" -> execute_stmt(call.stmt, s)
      [] call.op = "evaluate_block" -> evaluate_block(call.statements, s)
      [] call.op = "EvalList" -> EvalList(call.exprs, s)
      [] call.op = "while_loop" -> while_loop(call.condition, call.body, s, call.fuel)
      [] call.op = "for_loop" -> for_loop(call.variable, call.values, call.body, s)
      [] call.op = "match_arms" -> match_arms(call.arms, call.value, s)
      [] call.op = "assign_value_into" ->
            assign_value_into(call.target, call.replacement, s)

(***************************************************************************)
(* The programs the interpreter is run on, as the parser builds them       *)
(* (parser.rs: a `fn` is Stmt::Expr(Expr::Function) with a Block body; the *)
(* branches of `if` and the bodies of loops are Blocks).                   *)
(***************************************************************************)
\* Largest integer parameter the program families are built with.
MaxArg == 2
\* Longest statement sequence of a function body given to the optimizer.
MaxBody == 3
\* Most stages of a subcommand that fail in one run of main.
MaxFailures == 2

Args == 0..MaxArg

Num(n) == Lit(IntL(n))
SayE(expr) == Call(Var("print"), <<expr>>)
Say(expr) == ExprS(SayE(expr))
Fn(name, params, statements) == ExprS(Function(name, params, Block(statements)))
CallV(name, args) == Call(Var(name), args)
IfS(condition, statements) == ExprS(If(condition, Block(statements), None))

\* let x = 2 + 3 * 4  fn main() { print(x) }
ProgLet ==
    <<Let("x", Bin(Num(2), "Add", Bin(Num(3), "Mul", Num(4)))),
      Fn("main", <<>>, <<Say(Var("x"))>>)>>

\* fn fib(n) { if n < 2 { return n } return fib(n-1) + fib(n-2) }
\* fn main() { print(fib(N)) }
ProgFib(n) ==
    <<Fn("fib", <<"n">>,
         <<IfS(Bin(Var("n"), "Lt", Num(2)), <<Return(Some(Var("n")))>>),
           Return(Some(Bin(CallV("fib", <<Bin(Var("n"), "Sub", Num(1))>>), "Add",
                           CallV("fib", <<Bin(Var("n"), "Sub", Num(2))>>))))>>),
      Fn("main", <<>>, <<Say(CallV("fib", <<Num(n)>>))>>)>>

\* fn f() { return N  print(9) }  fn main() { print(f()) }
ProgReturnFirst(n) ==
    <<Fn("f", <<>>, <<Return(Some(Num(n))), Say(Num(9))>>),
      Fn("main", <<>>, <<Say(CallV("f", <<>>))>>)>>

\* fn f() { print(N)  return N + 1 }  fn main() { print(f()) }
ProgReturnLast(n) ==
    <<Fn("f", <<>>, <<Say(Num(n)), Return(Some(Bin(Num(n), "Add", Num(1))))>>),
      Fn("main", <<>>, <<Say(CallV("f", <<>>))>>)>>

\* fn main() { let i = 0  while i < 3 { if i == K { break }  print(i)  i = i + 1 } }
ProgBreakInIf(k) ==
    <<Fn("main", <<>>,
         <<Let("i", Num(0)),
           ExprS(While(Bin(Var("i"), "Lt", Num(3)),
                       Block(<<IfS(Bin(Var("i"), "Eq", Num(k)), <<Break>>),
                               Say(Var("i")),
                               Assign("i", Bin(Var("i"), "Add", Num(1)))>>)))>>)>>

\* fn main() { let i = 0  while i < 3 { i = i + 1  if i == 1 { continue }  print(i) } }
ProgContinueInIf ==
    <<Fn("main", <<>>,
         <<Let("i", Num(0)),
           ExprS(While(Bin(Var("i"), "Lt", Num(3)),
                       Block(<<Assign("i", Bin(Var("i"), "Add", Num(1))),
                               IfS(Bin(Var("i"), "Eq", Num(1)), <<Continue>>),
                               Say(Var("i"))>>)))>>)>>

\* fn main() { let i = 0  while i < 3 { i = i + 1  print(i)  SIGNAL  print(9) } }
ProgLoopSignal(signal) ==
    <<Fn("main", <<>>,
         <<Let("i", Num(0)),
           ExprS(While(Bin(Var("i"), "Lt", Num(3)),
                       Block(<<Assign("i", Bin(Var("i"), "Add", Num(1))),
                               Say(Var("i")), signal, Say(Num(9))>>)))>>)>>

\* SIGNAL  fn main() { print(1) }
ProgTopLevelSignal(signal) ==
    <<signal, Fn("main", <<>>, <<Say(Num(1))>>)>>

\* fn f() { SIGNAL }  fn main() { f()  print(1) }
ProgFunctionSignal(signal) ==
    <<Fn("f", <<>>, <<signal>>),
      Fn("main", <<>>, <<ExprS(CallV("f", <<>>)), Say(Num(1))>>)>>

\* fn f() { SIGNAL }  fn main() { for i in [1, 2] { f() } print(1) }
ProgCalleeSignal(signal) ==
    <<Fn("f", <<>>, <<signal>>),
      Fn("main", <<>>,
         <<ExprS(For("i", Lit(ArrayL(<<Num(1), Num(2)>>)),
                     Block(<<ExprS(CallV("f", <<>>))>>))),
           Say(Num(1))>>)>>

\* fn outer(a) { let b = B  fn inner() { a + b }  inner }
\* fn main() { let f = outer(A)  print(f()) }
ProgClosure(a, b) ==
    <<Fn("outer", <<"a">>,
         <<Let("b", Num(b)),
           Fn("inner", <<>>, <<ExprS(Bin(Var("a"), "Add", Var("b")))>>),
           ExprS(Var("inner"))>>),
      Fn("main", <<>>,
         <<Let("f", CallV("outer", <<Num(a)>>)),
           Say(CallV("f", <<>>))>>)>>

\* fn counter(a) { fn get() { a }  a = a + B  return get }
\* fn main() { let a = 9  let g = counter(A)  print(g()) }
ProgClosureShared(a, b) ==
    <<Fn("counter", <<"a">>,
         <<Fn("get", <<>>, <<ExprS(Var("a"))>>),
           Assign("a", Bin(Var("a"), "Add", Num(b))),
           Return(Some(Var("get")))>>),
      Fn("main", <<>>,
         <<Let("a", Num(9)),
           Let("g", CallV("counter", <<Num(a)>>)),
           Say(CallV("g", <<>>))>>)>>

\* fn g() { x }  fn f() { let x = X  g() }  fn main() { print(f()) }
ProgCallerLocal(x) ==
    <<Fn("g", <<>>, <<ExprS(Var("x"))>>),
      Fn("f", <<>>, <<Let("x", Num(x)), ExprS(CallV("g", <<>>))>>),
      Fn("main", <<>>, <<Say(CallV("f", <<>>))>>)>>

\* let x = G  fn g() { x }  fn f() { let x = X  g() }  fn main() { print(f()) }
ProgCallerShadow(g, x) ==
    <<Let("x", Num(g))>> \o ProgCallerLocal(x)

\* The three ways a `for` body ends: normally, by `break`, by `continue`.
ForBodies == {<<Say(Var("i"))>>, <<Say(Var("i")), Break>>, <<Say(Var("i")), Continue>>}

\* fn main() { let i = 7  for i in [1, 2] { BODY }  print(i) }
ProgForBound(body) ==
    <<Fn("main", <<>>,
         <<Let("i", Num(7)),
           ExprS(For("i", Lit(ArrayL(<<Num(1), Num(2)>>)), Block(body))),
           Say(Var("i"))>>)>>

\* fn main() { for i in "ab" { BODY }  print(i) }
ProgForUnbound(body) ==
    <<Fn("main", <<>>,
         <<ExprS(For("i", Lit(StrL(<<"a", "b">>)), Block(body))),
           Say(Var("i"))>>)>>

\* let i = 7  for i in range(N) { BODY }  print(i)
ProgForTopLevel(n, body) ==
    <<Let("i", Num(7)),
      ExprS(For("i", CallV("range", <<Num(n)>>), Block(body))),
      Say(Var("i"))>>

\* fn main() { let s = 0  for i in range(1, N + 1) { s = s + i }  print(s) }
ProgSum(n) ==
    <<Fn("main", <<>>,
         <<Let("s", Num(0)),
           ExprS(For("i", CallV("range", <<Num(1), Num(n + 1)>>),
                     Block(<<Assign("s", Bin(Var("s"), "Add", Var("i")))>>))),
           Say(Var("s"))>>)>>

\* struct P { x: int, y: int  fn sum(self) { return self.x + self.y } }
StructP ==
    StructDef("P", <<"x", "y">>,
              <<MethodDecl("sum", <<"self">>,
                           Block(<<Return(Some(Bin(FieldAccess(Var("self"), "x"), "Add",
                                                   FieldAccess(Var("self"), "y"))))>>))>>)

LitP(x, y) == StructLiteral("P", <<[name |-> "x", value |-> Num(x)],
                                   [name |-> "y", value |-> Num(y)]>>)

\* struct P { ... }  fn main() { let p = P { x: X, y: Y }  print(p.sum()) }
ProgMethod(x, y) ==
    <<StructP,
      Fn("main", <<>>,
         <<Let("p", LitP(x, y)),
           Say(Call(FieldAccess(Var("p"), "sum"), <<>>))>>)>>

\* struct P { x: int, y: int  fn add(self, k) { return self.x + k } }
\* fn main() { let p = P { x: X, y: 0 }  print(p.add(K)) }
ProgMethodArg(x, k) ==
    <<StructDef("P", <<"x", "y">>,
                <<MethodDecl("add", <<"self", "k">>,
                             Block(<<Return(Some(Bin(FieldAccess(Var("self"), "x"), "Add",
                                                     Var("k"))))>>))>>),
      Fn("main", <<>>,
         <<Let("p", LitP(x, 0)),
           Say(Call(FieldAccess(Var("p"), "add"), <<Num(k)>>))>>)>>

\* struct P { ... }  fn main() { let p = P { x: X, y: Y }  print(p) }
ProgPrintStruct(x, y) ==
    <<StructP, Fn("main", <<>>, <<Let("p", LitP(x, y)), Say(Var("p"))>>)>>

\* struct P { ... }  fn main() { print(len(to_string(P { x: X, y: Y }))) }
ProgStructLen(x, y) ==
    <<StructP,
      Fn("main", <<>>,
         <<Say(CallV("len", <<CallV("to_string", <<LitP(x, y)>>)>>))>>)>>

\* fn len(a) { print(9) }  fn range(a) { print(9) }
\* fn main() { print(len(range(N))) }
ProgShadowBuiltin(n) ==
    <<Fn("len", <<"a">>, <<Say(Num(9))>>),
      Fn("range", <<"a">>, <<Say(Num(9))>>),
      Fn("main", <<>>,
         <<Say(CallV("len", <<CallV("range", <<Num(n)>>)>>))>>)>>

\* fn len(a) { print(9) }  fn main() { print(len(N)) }   (the built-in fails)
ProgShadowBuiltinError(n) ==
    <<Fn("len", <<"a">>, <<Say(Num(9))>>),
      Fn("main", <<>>, <<Say(CallV("len", <<Num(n)>>))>>)>>

\* enum Result { Err }  fn expect(r, m) { print(9) }
\* fn main() { expect(Result::Err, MSG) }
ProgShadowExpect(msg) ==
    <<EnumDef("Result", <<"Err">>),
      Fn("expect", <<"r", "m">>, <<Say(Num(9))>>),
      Fn("main", <<>>,
         <<ExprS(CallV("expect", <<EnumVariant("Result", "Err", None),
                                   Lit(StrL(msg))>>))>>)>>

\* let x = 1  print(x)                      (no main)
ProgNoMain == <<Let("x", Num(1)), Say(Var("x"))>>

\* let main = 5  print(main)                (main is not a function)
ProgMainNotFunction == <<Let("main", Num(5)), Say(Var("main"))>>

\* fn main() { print(1) }  print(0)  print(y)      (a top-level statement fails)
ProgTopLevelError ==
    <<Fn("main", <<>>, <<Say(Num(1))>>), Say(Num(0)), Say(Var("y"))>>

\* fn main() { print(1 / 0) }                     (main fails)
ProgMainError == <<Fn("main", <<>>, <<Say(Bin(Num(1), "Div", Num(0)))>>)>>

\* let i = 7  for i in [1, 2] { print(2 / (i - N)) }  print(i)
\* (the body fails in pass N; with N = 0 in no pass)
ProgForError(n) ==
    <<Let("i", Num(7)),
      ExprS(For("i", Lit(ArrayL(<<Num(1), Num(2)>>)),
                Block(<<Say(Bin(Num(2), "Div", Bin(Var("i"), "Sub", Num(n))))>>))),
      Say(Var("i"))>>

\* for i in "ab" { print(y) }              (the body fails, i unbound before)
ProgForErrorUnbound ==
    <<ExprS(For("i", Lit(StrL(<<"a", "b">>)), Block(<<Say(Var("y"))>>)))>>

\* enum Result { Err }  fn main() { expect(Result::Err, MSG) }
ProgExpectFails(msg) ==
    <<EnumDef("Result", <<"Err">>),
      Fn("main", <<>>,
         <<ExprS(CallV("expect", <<EnumVariant("Result", "Err", None),
                                   Lit(StrL(msg))>>))>>)>>

\* fn main() { print(len(N)) }             (wrong argument type)
ProgLenOfInt(n) == <<Fn("main", <<>>, <<Say(CallV("len", <<Num(n)>>))>>)>>

\* fn main() { print(len()) }              (wrong arity)
ProgLenNoArgs == <<Fn("main", <<>>, <<Say(CallV("len", <<>>))>>)>>

\* let x = G  fn main() { match V { x => print(x) }  print(x) }
ProgMatchOuter(g, v) ==
    <<Let("x", Num(g)),
      Fn("main", <<>>,
         <<ExprS(Match(Num(v), <<MatchArm(VariablePattern("x"), SayE(Var("x")))>>)),
           Say(Var("x"))>>)>>

\* fn main() { let x = G  match V { 9 => print(9), x => BODY }  print(x) }
ProgMatchLocal(g, v, body) ==
    <<Fn("main", <<>>,
         <<Let("x", Num(g)),
           ExprS(Match(Num(v), <<MatchArm(LiteralPattern(IntL(9)), SayE(Num(9))),
                                 MatchArm(VariablePattern("x"), body)>>)),
           Say(Var("x"))>>)>>

\* The arm bodies: one that ends with a value, one that ends with an error.
MatchBodies == {SayE(Var("x")), SayE(Bin(Var("x"), "Div", Num(0)))}

\* fn main() { match V { y => print(y) }  print(y) }       (y unbound before)
ProgMatchUnbound(v) ==
    <<Fn("main", <<>>,
         <<ExprS(Match(Num(v), <<MatchArm(VariablePattern("y"), SayE(Var("y")))>>)),
           Say(Var("y"))>>)>>

\* enum Option { Some }
\* fn main() { let x = G  match Option::Some(V) { Option::Some(x) => print(x) }  print(x) }
ProgMatchEnum(g, v) ==
    <<EnumDef("Option", <<"Some">>),
      Fn("main", <<>>,
         <<Let("x", Num(g)),
           ExprS(Match(EnumVariant("Option", "Some", Some(Num(v))),
                       <<MatchArm(EnumVariantPattern("Option", "Some", Some("x")),
                                  SayE(Var("x")))>>)),
           Say(Var("x"))>>)>>

\* The ways a block ends: `let a = N`, `a = N` after a let, `a + 1` after a
\* let, nothing at all.
BlockEnds ==
    {"let", "assign", "expr", "empty"}

\* fn f() { BLOCK }  fn main() { print(f()) }
ProgBlockValue(kind, n) ==
    <<Fn("f", <<>>,
         CASE kind = "let" -> <<Let("a", Num(n))>>
           [] kind = "assign" -> <<Let("a", Num(0)), Assign("a", Num(n))>>
           [] kind = "expr" -> <<Let("a", Num(n)), ExprS(Bin(Var("a"), "Add", Num(1)))>>
           [] OTHER -> <<>>),
      Fn("main", <<>>, <<Say(CallV("f", <<>>))>>)>>

\* struct P { x: int, y: int }
\* fn f() { let p = P { x: 0, y: 1 }  p.x = N }  fn main() { print(f()) }
ProgBlockFieldAssign(n) ==
    <<StructP,
      Fn("f", <<>>, <<Let("p", LitP(0, 1)), AssignField(Var("p"), "x", Num(n))>>),
      Fn("main", <<>>, <<Say(CallV("f", <<>>))>>)>>

\* struct Q { fn bad(self) { return 1 / 0 }  fn sbad() { return 1 / 0 } }
StructQ ==
    StructDef("Q", <<>>,
              <<MethodDecl("bad", <<"self">>,
                           Block(<<Return(Some(Bin(Num(1), "Div", Num(0))))>>)),
                MethodDecl("sbad", <<>>,
                           Block(<<Return(Some(Bin(Num(1), "Div", Num(0))))>>))>>)

\* How the call of ProgCallFails is written.
CallKinds == {"function", "static", "instance", "arity"}

\* struct Q { ... }  fn bad() { return 1 / 0 }  fn one(a) { return a }
\* fn main() { let q = Q {}  CALL }    CALL: bad() | Q.sbad() | q.bad() | one()
ProgCallFails(kind) ==
    <<StructQ,
      Fn("bad", <<>>, <<Return(Some(Bin(Num(1), "Div", Num(0))))>>),
      Fn("one", <<"a">>, <<Return(Some(Var("a")))>>),
      Fn("main", <<>>,
         <<Let("q", StructLiteral("Q", <<>>)),
           ExprS(CASE kind = "function" -> CallV("bad", <<>>)
                   [] kind = "static" -> Call(FieldAccess(Var("Q"), "sbad"), <<>>)
                   [] kind = "instance" -> Call(FieldAccess(Var("q"), "bad"), <<>>)
                   [] OTHER -> CallV("one", <<>>))>>)>>

\* let x = G  fn f() { let x = X  return x }  fn main() { print(f())  print(x) }
ProgLetInCall(g, x) ==
    <<Let("x", Num(g)),
      Fn("f", <<>>, <<Let("x", Num(x)), Return(Some(Var("x")))>>),
      Fn("main", <<>>, <<Say(CallV("f", <<>>)), Say(Var("x"))>>)>>

\* struct P { ... }
\* fn main() { let p = P { x: X, y: 1 }  let q = p  p.x = V
\*             print(p.x)  print(p.y)  print(q.x) }
ProgAssignField(x, v) ==
    <<StructP,
      Fn("main", <<>>,
         <<Let("p", LitP(x, 1)),
           Let("q", Var("p")),
           AssignField(Var("p"), "x", Num(v)),
           Say(FieldAccess(Var("p"), "x")),
           Say(FieldAccess(Var("p"), "y")),
           Say(FieldAccess(Var("q"), "x"))>>)>>

\* fn main() { let p = X  let q = p  p.x = 2  print(p) }    (p is no struct)
ProgAssignFieldNonStruct(x) ==
    <<Fn("main", <<>>,
         <<Let("p", Num(x)),
           Let("q", Var("p")),
           AssignField(Var("p"), "x", Num(2)),
           Say(Var("p"))>>)>>

Signals == {Break, Continue}

Programs ==
    {ProgLet, ProgContinueInIf, ProgNoMain, ProgMainNotFunction, ProgTopLevelError,
     ProgMainError}
    \cup {ProgFib(n) : n \in Args}
    \cup {ProgReturnFirst(n) : n \in Args}
    \cup {ProgReturnLast(n) : n \in Args}
    \cup {ProgBreakInIf(k) : k \in Args}
    \cup {ProgLoopSignal(sig) : sig \in Signals}
    \cup {ProgTopLevelSignal(sig) : sig \in Signals}
    \cup {ProgFunctionSignal(sig) : sig \in Signals}
    \cup {ProgCalleeSignal(sig) : sig \in Signals}
    \cup {ProgClosure(a, b) : a \in Args, b \in Args}
    \cup {ProgClosureShared(a, b) : a \in Args, b \in Args}
    \cup {ProgCallerLocal(x) : x \in Args}
    \cup {ProgCallerShadow(g, x) : g \in Args, x \in Args}
    \cup {ProgForBound(body) : body \in ForBodies}
    \cup {ProgForUnbound(body) : body \in ForBodies}
    \cup {ProgForTopLevel(n, body) : n \in Args, body \in ForBodies}
    \cup {ProgSum(n) : n \in Args}
    \cup {ProgMethod(x, y) : x \in Args, y \in Args}
    \cup {ProgMethodArg(x, k) : x \in Args, k \in Args}
    \cup {ProgShadowBuiltin(n) : n \in Args}
    \cup {ProgShadowBuiltinError(n) : n \in Args}
    \cup {ProgShadowExpect(msg) : msg \in {Boom, UnknownBuiltinText}}
    \cup {ProgPrintStruct(x, y) : x \in Args, y \in Args}
    \cup {ProgStructLen(x, y) : x \in Args, y \in Args}
    \cup {ProgForError(n) : n \in Args} \cup {ProgForErrorUnbound, ProgLenNoArgs}
    \cup {ProgExpectFails(msg) : msg \in {Boom, UnknownBuiltinText}}
    \cup {ProgLenOfInt(n) : n \in Args}
    \cup {ProgMatchOuter(g, v) : g \in Args, v \in Args}
    \cup {ProgMatchLocal(g, v, body) : g \in Args, v \in Args, body \in MatchBodies}
    \cup {ProgMatchUnbound(v) : v \in Args}
    \cup {ProgMatchEnum(g, v) : g \in Args, v \in Args}
    \cup {ProgBlockValue(kind, n) : kind \in BlockEnds, n \in Args}
    \cup {ProgBlockFieldAssign(n) : n \in Args}
    \cup {ProgCallFails(kind) : kind \in CallKinds}
    \cup {ProgLetInCall(g, x) : g \in Args, x \in Args}
    \cup {ProgAssignField(x, v) : x \in Args, v \in Args}
    \cup {ProgAssignFieldNonStruct(x) : x \in Args}

(***************************************************************************)
(* interpreter.rs: Interpreter::interpret                                  *)
(***************************************************************************)
\* How interpret (or the process) ends on a result: "ok", "error" for an Err,
\* "abort" for a panic or an exhausted stack, "diverge" for a loop without end.
Outcome(k) == IF k = "err" THEN "error" ELSE k

\* interpreter.environment.borrow().get("main").ok().and_then(...)
main_info(s) ==
    LET m == get(s.frames, s.environment, "main")
    IN  IF m.k = "ok" /\ m.v.t = "fn" THEN Some(m.v) ELSE None

\* The frame main's body runs in: Environment::new(Some(closure)).
main_frame(s, closure) == PushFrame(s, closure)

\* for stmt in &program.statements { let _ = interpreter.execute_stmt(stmt)?; }
\* One iteration: the (value, ControlFlow) pair of an Ok is dropped.
top_level_step(stmt, s) == self_execute_stmt(stmt, s)

\* if let Some((body, closure)) = main_info { ... interpreter.evaluate(&body)?; ... }
invoke_main(s) ==
    LET m == main_info(s).x
        old_env == s.environment
        s1 == [main_frame(s, m.closure) EXCEPT !.depth = 1]
        r == self_evaluate(m.body, s1)
    IN  IF r.k # "ok" THEN r
        ELSE [r EXCEPT !.s.environment = old_env, !.s.depth = 0]

\* Whether interpret goes on after a top-level statement: the `?`.
proceeds(r) == r.k = "ok"

\* A loop over the statements that stops one statement early.
statements_done_early(n, length) == n >= length

\* Whether interpret looks for main: the loop over the statements is done.
statements_done(n, length) == n > length

(***************************************************************************)
(* lexer.rs: tokenize.  `chars` is the peekable iterator: the characters   *)
(* of the source not consumed yet.  A token is a record tagged with the    *)
(* name of the Token variant.                                              *)
(***************************************************************************)
NL == "\n"
Quote == "\""
Backslash == "\\"

Lower == {"a", "b", "c", "d", "e", "f", "g", "h", "i", "j", "k", "l", "m", "n",
          "o", "p", "q", "r", "s", "t", "u", "v", "w", "x", "y", "z"}
Upper == {"A", "B", "C", "D", "E", "F", "G", "H", "I", "J", "K", "L", "M", "N",
          "O", "P", "Q", "R", "S", "T", "U", "V", "W", "X", "Y", "Z"}
Digits == {"0", "1", "2", "3", "4", "5", "6", "7", "8", "9"}

\* char::is_alphabetic: the ASCII letters and the letters beyond ASCII.
is_alphabetic(ch) == ch \in Lower \cup Upper \cup {EAcute}

DigitValue(ch) == CHOOSE d \in 0..9 : Digit(d) = ch

Tok(t) == [t |-> t]
IntTok(n) == [t |-> "Int", n |-> n]
FloatTok(text) == [t |-> "Float", text |-> text]
StringTok(cs) == [t |-> "String", s |-> cs]
InterpolatedStringTok(cs) == [t |-> "InterpolatedString", s |-> cs]
BoolTok(b) == [t |-> "Bool", b |-> b]
IdentifierTok(name) == [t |-> "Identifier", name |-> name]
KeywordTok(k) == [t |-> "Keyword", k |-> k]
Eof == Tok("Eof")

\* num_str.parse::<i64>(): the digits' value, or None beyond the integer width.
RECURSIVE parse_int(_, _)
parse_int(digits, acc) ==
    IF digits = <<>> THEN Some(acc)
    ELSE LET next == acc * 10 + DigitValue(Head(digits))
         IN  IF next > IntMax THEN None ELSE parse_int(Tail(digits), next)

\* '/' if next is '/': while let Some(&ch) = chars.peek() { if ch == '\n' { break } chars.next(); }
RECURSIVE skip_comment(_)
skip_comment(chars) ==
    IF chars = <<>> \/ Head(chars) = NL THEN chars ELSE skip_comment(Tail(chars))

\* The number branch's loop: digits, and one '.' while !is_float.
RECURSIVE scan_number(_, _, _)
scan_number(chars, num_str, is_float) ==
    IF chars # <<>> /\ Head(chars) \in Digits
    THEN scan_number(Tail(chars), Append(num_str, Head(chars)), is_float)
    ELSE IF chars # <<>> /\ Head(chars) = "." /\ ~ is_float
    THEN scan_number(Tail(chars), Append(num_str, "."), TRUE)
    ELSE [chars |-> chars, num_str |-> num_str, is_float |-> is_float]

\* The string branch's loop, after the opening quote is consumed.
RECURSIVE scan_string(_, _, _)
scan_string(chars, string, has_interpolation) ==
    IF chars = <<>>
    THEN [k |-> "ok", chars |-> chars, string |-> string, interp |-> has_interpolation]
    ELSE LET ch == Head(chars)
             rest == Tail(chars)
         IN  IF ch = Quote
             THEN [k |-> "ok", chars |-> rest, string |-> string,
                   interp |-> has_interpolation]
             ELSE IF ch = "{" THEN scan_string(rest, Append(string, ch), TRUE)
             ELSE IF ch = Backslash
             THEN IF rest # <<>> /\ Head(rest) \in {"n", "t", Backslash, Quote}
                  THEN scan_string(Tail(rest),
                                   Append(string,
                                          CASE Head(rest) = "n" -> NL
                                            [] Head(rest) = "t" -> "\t"
                                            [] OTHER -> Head(rest)),
                                   has_interpolation)
                  ELSE [k |-> "error", chars |-> IF rest = <<>> THEN rest ELSE Tail(rest),
                        msg |-> "Invalid escape sequence"]
             ELSE scan_string(rest, Append(string, ch), has_interpolation)

\* The identifier branch's loop: it takes ASCII letters, digits and '_' only.
RECURSIVE scan_ident(_, _)
scan_ident(chars, ident) ==
    IF chars # <<>> /\ Head(chars) \in Lower \cup Upper \cup Digits \cup {"_"}
    THEN scan_ident(Tail(chars), Append(ident, Head(chars)))
    ELSE [chars |-> chars, ident |-> ident]

Keywords == {"fn", "let", "struct", "if", "else", "while", "for", "in", "return",
             "match", "break", "continue", "none", "int", "float", "string", "bool",
             "array"}

\* match ident.as_str() { ... }
ident_token(ident) ==
    LET name == Flatten(ident)
    IN  IF name = "true" THEN BoolTok(TRUE)
        ELSE IF name = "false" THEN BoolTok(FALSE)
        ELSE IF name \in Keywords THEN KeywordTok(name)
        ELSE IdentifierTok(name)

\* The arms that push one token for one character.
SingleChars == {"+", "*", "/", "%", ".", "(", ")", "{", "}", "[", "]", ",", ";", ":"}

single_token(ch) ==
    CASE ch = "+" -> Tok("Plus") [] ch = "*" -> Tok("Star") [] ch = "/" -> Tok("Slash")
      [] ch = "%" -> Tok("Percent") [] ch = "." -> Tok("Dot")
      [] ch = "(" -> Tok("LeftParen") [] ch = ")" -> Tok("RightParen")
      [] ch = "{" -> Tok("LeftBrace") [] ch = "}" -> Tok("RightBrace")
      [] ch = "[" -> Tok("LeftBracket") [] ch = "]" -> Tok("RightBracket")
      [] ch = "," -> Tok("Comma") [] ch = ";" -> Tok("Semicolon")
      [] ch = ":" -> Tok("Colon")

\* The arms that look at the character after the first: '-', '=', '!', '<', '>'.
PairChars == {"-", "=", "!", "<", ">"}

pair_token(ch, rest) ==
    LET next == IF rest = <<>> THEN "" ELSE Head(rest)
        two(t) == [chars |-> Tail(rest), tok |-> Tok(t)]
        one(t) == [chars |-> rest, tok |-> Tok(t)]
    IN  CASE ch = "-" -> IF next = ">" THEN two("Arrow") ELSE one("Minus")
          [] ch = "=" -> IF next = "=" THEN two("EqEq")
                         ELSE IF next = ">" THEN two("FatArrow") ELSE one("Eq")
          [] ch = "!" -> IF next = "=" THEN two("Ne") ELSE one("Not")
          [] ch = "<" -> IF next = "=" THEN two("Le") ELSE one("Lt")
          [] ch = ">" -> IF next = "=" THEN two("Ge") ELSE one("Gt")

\* One pass through the body of `while let Some(&ch) = chars.peek() { match ch ... }`:
\* the characters left, the tokens pushed, and whether the pass returned Err.
Scanned(chars, toks) == [k |-> "scan", chars |-> chars, toks |-> toks]
LexError(msg, chars) == [k |-> "error", msg |-> msg, chars |-> chars, toks |-> <<>>]

tokenize_step(chars) ==
    LET ch == Head(chars)
        rest == Tail(chars)
    IN  CASE ch \in {" ", "\t", "\r", NL} -> Scanned(rest, <<>>)
          [] ch = "/" /\ rest # <<>> /\ Head(rest) = "/" -> Scanned(skip_comment(chars), <<>>)
          [] ch \in Digits ->
                LET n == scan_number(chars, <<>>, FALSE)
                IN  IF n.is_float THEN Scanned(n.chars, <<FloatTok(Flatten(n.num_str))>>)
                    ELSE LET num == parse_int(n.num_str, 0)
                         IN  IF num.some THEN Scanned(n.chars, <<IntTok(num.x)>>)
                             ELSE LexError("Invalid integer", n.chars)
          [] ch = Quote ->
                LET str == scan_string(rest, <<>>, FALSE)
                IN  IF str.k = "error" THEN LexError(str.msg, str.chars)
                    ELSE IF str.interp
                    THEN Scanned(str.chars, <<InterpolatedStringTok(str.string)>>)
                    ELSE Scanned(str.chars, <<StringTok(str.string)>>)
          [] ch \in SingleChars -> Scanned(rest, <<single_token(ch)>>)
          [] ch \in PairChars ->
                LET p == pair_token(ch, rest) IN Scanned(p.chars, <<p.tok>>)
          [] ch \in {"&", "|"} ->
                IF rest # <<>> /\ Head(rest) = ch
                THEN Scanned(Tail(rest), <<Tok(IF ch = "&" THEN "And" ELSE "Or")>>)
                ELSE LexError("Unexpected '" \o ch \o "'", rest)
          [] is_alphabetic(ch) \/ ch = "_" ->
                LET id == scan_ident(chars, <<>>)
                IN  Scanned(id.chars, <<ident_token(id.ident)>>)
          [] OTHER -> LexError("Unexpected character: " \o ch, chars)

\* The characters the inputs of the lexer are drawn from: one or more for
\* each branch of the match.
Alphabet == {" ", NL, "/", "1", "9", ".", Quote, Backslash, "n", "i", "=", "&", "_",
             EAcute, "#"}

RECURSIVE SeqsUpTo(_, _)
SeqsUpTo(S, n) ==
    IF n = 0 THEN {<<>>}
    ELSE LET shorter == SeqsUpTo(S, n - 1)
         IN  shorter \cup {Append(cs, c) : cs \in shorter, c \in S}

Sources == SeqsUpTo(Alphabet, MaxSrcLen)

\* The peekable iterator: what of `source` is not consumed.
Chars == SubSeq(source, pos + 1, Len(source))

\* The interpreter as a call left it, with the TogError of an Err recorded.
Ended(r) ==
    IF r.k = "err" THEN [r.s EXCEPT !.h.error = <<r.kind, r.msg>>] ELSE r.s

\* Interpreter::interpret from its n-th top-level statement on: how it ends
\* and what it has printed by then.
RECURSIVE interpret_from(_, _, _)
interpret_from(statements, n, s) ==
    IF ~ statements_done(n, Len(statements))
    THEN LET r == top_level_step(statements[n], s)
         IN  IF proceeds(r) THEN interpret_from(statements, n + 1, r.s)
             ELSE [status |-> Outcome(r.k), out |-> r.s.out]
    ELSE IF main_info(s).some
    THEN LET r == invoke_main(s)
         IN  [status |-> Outcome(r.k), out |-> r.s.out]
    ELSE [status |-> "ok", out |-> s.out]

interpret(statements, host) == interpret_from(statements, 1, Interpreter_new(host))

IdleLexer ==
    /\ source = <<>> /\ pos = 0 /\ tokens = <<>> /\ lexState = "idle" /\ lexSteps = 0

IdleOps == opCall = [fn |-> "idle"] /\ opResult = [k |-> "idle"]

IdleDriver == driver = [exit |-> "idle"]

IdleInterpreter ==
    /\ program = <<>> /\ pc = 0 /\ interpreter = "idle" /\ status = "idle"
    /\ mainCalls = 0

Init ==
    /\ program \in Programs
    /\ pc = 1
    /\ \E h \in Hosts : interpreter = Interpreter_new(h)
    /\ status = "running"
    /\ mainCalls = 0
    /\ IdleLexer
    /\ IdleOps
    /\ IdleDriver

ExecuteTopLevel ==
    /\ status = "running"
    /\ ~ statements_done(pc, Len(program))
    /\ LET r == top_level_step(program[pc], interpreter)
       IN  /\ interpreter' = Ended(r)
           /\ IF proceeds(r)
              THEN pc' = pc + 1 /\ status' = "running"
              ELSE pc' = pc /\ status' = Outcome(r.k)
    /\ UNCHANGED <<program, mainCalls>>
    /\ UNCHANGED <<lexVars, opVars, driverVars>>

InvokeMain ==
    /\ status = "running"
    /\ statements_done(pc, Len(program))
    /\ main_info(interpreter).some
    /\ LET r == invoke_main(interpreter)
       IN  /\ interpreter' = Ended(r)
           /\ status' = Outcome(r.k)
    /\ mainCalls' = mainCalls + 1
    /\ UNCHANGED <<program, pc>>
    /\ UNCHANGED <<lexVars, opVars, driverVars>>

FinishWithoutMain ==
    /\ status = "running"
    /\ statements_done(pc, Len(program))
    /\ ~ main_info(interpreter).some
    /\ status' = "ok"
    /\ UNCHANGED <<program, pc, interpreter, mainCalls>>
    /\ UNCHANGED <<lexVars, opVars, driverVars>>

Next == ExecuteTopLevel \/ InvokeMain \/ FinishWithoutMain

Spec == Init /\ [][Next]_vars

(***************************************************************************)
(* tokenize, one iteration of its main loop per step.                      *)
(***************************************************************************)
InitLexer ==
    /\ source \in Sources
    /\ pos = 0
    /\ tokens = <<>>
    /\ lexState = "scan"
    /\ lexSteps = 0
    /\ IdleInterpreter
    /\ IdleOps
    /\ IdleDriver

\* while let Some(&ch) = chars.peek() { ... }: one iteration.
LexIterate ==
    /\ lexState = "scan"
    /\ Chars # <<>>
    /\ lexSteps < MaxLexSteps
    /\ LET r == tokenize_step(Chars)
       IN  /\ pos' = Len(source) - Len(r.chars)
           /\ tokens' = tokens \o r.toks
           /\ lexState' = r.k
    /\ lexSteps' = lexSteps + 1
    /\ UNCHANGED source
    /\ UNCHANGED <<interpVars, opVars, driverVars>>

\* chars.peek() is None: tokens.push(Token::Eof); Ok(tokens)
LexFinish ==
    /\ lexState = "scan"
    /\ Chars = <<>>
    /\ tokens' = Append(tokens, Eof)
    /\ lexState' = "ok"
    /\ UNCHANGED <<source, pos, lexSteps>>
    /\ UNCHANGED <<interpVars, opVars, driverVars>>

NextLexer == LexIterate \/ LexFinish

SpecLexer == InitLexer /\ [][NextLexer]_vars

(***************************************************************************)
(* evaluate_binary_op, evaluate_unary_op and the Expr::Index arm applied   *)
(* to evaluated operands, one application per run.                         *)
(***************************************************************************)
Operands ==
    {IntV(n) : n \in {IntMin, -1, 0, 1, 2, IntMax}}
    \cup {BoolV(b) : b \in BOOLEAN}
    \cup {StrV(cs) : cs \in {<<>>, <<"a">>, <<EAcute>>, <<"a", EAcute>>}}
    \cup {ArrV(vs) : vs \in {<<>>, <<IntV(1)>>, <<IntV(1), BoolV(TRUE)>>}}
    \cup {NoneV}

InitOps ==
    /\ IdleOps
    /\ IdleInterpreter
    /\ IdleLexer
    /\ IdleDriver

ApplyBinaryOp ==
    /\ opCall.fn = "idle"
    /\ \E left \in Operands, op \in BinaryOps, right \in Operands, checks \in BOOLEAN :
          /\ opCall' = [fn |-> "evaluate_binary_op", left |-> left, op |-> op,
                        right |-> right, checks |-> checks]
          /\ opResult' = evaluate_binary_op(left, op, right, checks)
    /\ UNCHANGED <<interpVars, lexVars, driverVars>>

ApplyUnaryOp ==
    /\ opCall.fn = "idle"
    /\ \E op \in UnaryOps, value \in Operands, checks \in BOOLEAN :
          /\ opCall' = [fn |-> "evaluate_unary_op", op |-> op, value |-> value,
                        checks |-> checks]
          /\ opResult' = evaluate_unary_op(op, value, checks)
    /\ UNCHANGED <<interpVars, lexVars, driverVars>>

ApplyIndex ==
    /\ opCall.fn = "idle"
    /\ \E array_val \in Operands, index_val \in Operands :
          /\ opCall' = [fn |-> "index", array |-> array_val, index |-> index_val]
          /\ opResult' = index_value(array_val, index_val)
    /\ UNCHANGED <<interpVars, lexVars, driverVars>>

NextOps == ApplyBinaryOp \/ ApplyUnaryOp \/ ApplyIndex

SpecOps == InitOps /\ [][NextOps]_vars

(***************************************************************************)
(* compiler/ir.rs: the IR (IrValue, IrExpression, IrStatement, IrBlock,    *)
(* IrFunction, IrProgram) and the lowering ast_to_ir.                      *)
(***************************************************************************)
IrInt(n) == [v |-> "int", n |-> n]
IrBool(b) == [v |-> "bool", b |-> b]
IrString(cs) == [v |-> "str", s |-> cs]
IrNone == [v |-> "none"]

IrLiteral(value) == [x |-> "lit", value |-> value]
IrVariable(name) == [x |-> "var", name |-> name]
IrBinaryOp(left, op, right) == [x |-> "bin", left |-> left, op |-> op, right |-> right]
IrUnaryOp(op, expr) == [x |-> "un", op |-> op, expr |-> expr]
IrCall(callee, args) == [x |-> "call", callee |-> callee, args |-> args]
IrIndex(base, index) == [x |-> "index", base |-> base, index |-> index]

IrLet(name, value) == [st |-> "let", name |-> name, value |-> value]
IrAssign(name, value) == [st |-> "assign", name |-> name, value |-> value]
IrReturn(value) == [st |-> "return", value |-> value]
IrBreak == [st |-> "break"]
IrContinue == [st |-> "continue"]
IrExpressionStmt(expr) == [st |-> "expr", expr |-> expr]
IrIf(condition, then_branch, else_branch) ==
    [st |-> "if", condition |-> condition, then_branch |-> then_branch,
     else_branch |-> else_branch]
IrWhile(condition, body) == [st |-> "while", condition |-> condition, body |-> body]

IrBlockBlock(statements) == [b |-> "block", statements |-> statements]
IrBlockExpression(expr) == [b |-> "expr", expr |-> expr]

IrFunction(name, params, body, is_public) ==
    [name |-> name, params |-> params, body |-> body, is_public |-> is_public]
IrGlobal(name, initializer) == [name |-> name, initializer |-> initializer]
IrProgram(functions, globals) == [functions |-> functions, globals |-> globals]

\* Result<Vec<T>, TogError> of a sequence of results: the first Err, or all
\* the values (the `?` inside a loop, and .collect() on an iterator of results).
collect(results) ==
    IF \E i \in 1..Len(results) : results[i].k # "ok"
    THEN results[CHOOSE i \in 1..Len(results) :
                     /\ results[i].k # "ok"
                     /\ \A j \in 1..(i - 1) : results[j].k = "ok"]
    ELSE OkP([i \in 1..Len(results) |-> results[i].v])

literal_to_ir_value(lit) ==
    CASE lit.l = "int" -> OkP(IrInt(lit.n))
      [] lit.l = "str" -> OkP(IrString(lit.s))
      [] lit.l = "bool" -> OkP(IrBool(lit.b))
      [] lit.l = "array" ->
            ErrP("RuntimeError", "Array literals in IR not yet implemented")
      [] OTHER -> OkP(IrNone)

expr_to_ir_value(expr) ==
    IF expr.e = "lit" THEN literal_to_ir_value(expr.lit)
    ELSE ErrP("RuntimeError", "Expected literal value")

RECURSIVE expr_to_ir_expr(_)
expr_to_ir_expr(expr) ==
    CASE expr.e = "lit" ->
            LET v == literal_to_ir_value(expr.lit)
            IN  IF v.k = "ok" THEN OkP(IrLiteral(v.v)) ELSE v
      [] expr.e = "var" -> OkP(IrVariable(expr.name))
      [] expr.e = "bin" ->
            LET l == expr_to_ir_expr(expr.left)
                r == expr_to_ir_expr(expr.right)
            IN  IF l.k # "ok" THEN l
                ELSE IF r.k # "ok" THEN r
                ELSE OkP(IrBinaryOp(l.v, expr.op, r.v))
      [] expr.e = "un" ->
            LET x == expr_to_ir_expr(expr.expr)
            IN  IF x.k # "ok" THEN x ELSE OkP(IrUnaryOp(expr.op, x.v))
      [] expr.e = "call" ->
            IF expr.callee.e # "var"
            THEN ErrP("RuntimeError", "Only variable calls supported in IR")
            ELSE LET ir_args == collect([i \in 1..Len(expr.args) |->
                                           expr_to_ir_expr(expr.args[i])])
                 IN  IF ir_args.k # "ok" THEN ir_args
                     ELSE OkP(IrCall(expr.callee.name, ir_args.v))
      [] expr.e = "index" ->
            LET a == expr_to_ir_expr(expr.array)
                i == expr_to_ir_expr(expr.index)
            IN  IF a.k # "ok" THEN a
                ELSE IF i.k # "ok" THEN i
                ELSE OkP(IrIndex(a.v, i.v))
      [] expr.e = "structlit" ->
            ErrP("RuntimeError", "Struct literals not yet supported in IR codegen")
      [] expr.e = "field" ->
            ErrP("RuntimeError", "Field access not yet supported in IR codegen")
      [] expr.e = "for" ->
            ErrP("RuntimeError", "For loops not yet implemented in IR conversion")
      [] OTHER -> ErrP("RuntimeError", "Unsupported expression in IR conversion")

RECURSIVE expr_to_ir_block(_)
RECURSIVE stmt_to_ir(_)
expr_to_ir_block(expr) ==
    IF expr.e = "block"
    THEN LET ir_stmts == collect([i \in 1..Len(expr.statements) |->
                                    stmt_to_ir(expr.statements[i])])
         IN  IF ir_stmts.k # "ok" THEN ir_stmts ELSE OkP(IrBlockBlock(ir_stmts.v))
    ELSE LET ir_expr == expr_to_ir_expr(expr)
         IN  IF ir_expr.k # "ok" THEN ir_expr ELSE OkP(IrBlockExpression(ir_expr.v))

stmt_to_ir(stmt) ==
    CASE stmt.s = "let" ->
            LET v == expr_to_ir_expr(stmt.value)
            IN  IF v.k # "ok" THEN v ELSE OkP(IrLet(stmt.name, v.v))
      [] stmt.s = "assign" ->
            LET v == expr_to_ir_expr(stmt.value)
            IN  IF v.k # "ok" THEN v ELSE OkP(IrAssign(stmt.name, v.v))
      [] stmt.s = "assignfield" ->
            ErrP("RuntimeError", "Field assignment not yet supported in IR")
      [] stmt.s = "return" ->
            IF stmt.value.some
            THEN LET v == expr_to_ir_expr(stmt.value.x)
                 IN  IF v.k # "ok" THEN v ELSE OkP(IrReturn(Some(v.v)))
            ELSE OkP(IrReturn(None))
      [] stmt.s = "break" -> OkP(IrBreak)
      [] stmt.s = "continue" -> OkP(IrContinue)
      [] stmt.s = "structdef" ->
            ErrP("RuntimeError", "Struct definitions not yet supported in IR conversion")
      [] OTHER ->
            IF stmt.expr.e = "if"
            THEN    LET else_ir == IF stmt.expr.else_branch.some
                                   THEN expr_to_ir_block(stmt.expr.else_branch.x)
                                   ELSE OkP(IrNone)
                        c == expr_to_ir_expr(stmt.expr.condition)
                        t == expr_to_ir_block(stmt.expr.then_branch)
                    IN  IF else_ir.k # "ok" THEN else_ir
                        ELSE IF c.k # "ok" THEN c
                        ELSE IF t.k # "ok" THEN t
                        ELSE OkP(IrIf(c.v, t.v,
                                      IF stmt.expr.else_branch.some
                                      THEN Some(else_ir.v) ELSE None))
            ELSE IF stmt.expr.e = "while"
            THEN    LET c == expr_to_ir_expr(stmt.expr.condition)
                        b == expr_to_ir_block(stmt.expr.body)
                    IN  IF c.k # "ok" THEN c
                        ELSE IF b.k # "ok" THEN b
                        ELSE OkP(IrWhile(c.v, b.v))
            ELSE    LET x == expr_to_ir_expr(stmt.expr)
                    IN  IF x.k # "ok" THEN x ELSE OkP(IrExpressionStmt(x.v))

\* One pass of the loop of ast_to_ir: the statement's contribution, or the
\* error that ends the lowering.
lower_top_level(stmt) ==
    CASE stmt.s = "expr" /\ stmt.expr.e = "fn" ->
            LET ir_body == expr_to_ir_block(stmt.expr.body)
            IN  IF ir_body.k # "ok" THEN ir_body
                ELSE OkP([functions |-> <<IrFunction(stmt.expr.name, stmt.expr.params,
                                                     ir_body.v, TRUE)>>,
                          globals |-> <<>>])
      [] stmt.s = "let" ->
            LET ir_value == expr_to_ir_value(stmt.value)
            IN  IF ir_value.k # "ok" THEN ir_value
                ELSE OkP([functions |-> <<>>,
                          globals |-> <<IrGlobal(stmt.name, ir_value.v)>>])
      [] OTHER -> OkP([functions |-> <<>>, globals |-> <<>>])

ast_to_ir(statements) ==
    LET parts == collect([i \in 1..Len(statements) |-> lower_top_level(statements[i])])
    IN  IF parts.k # "ok" THEN parts
        ELSE OkP(IrProgram(JoinChars([i \in 1..Len(parts.v) |-> parts.v[i].functions],
                                     <<>>),
                           JoinChars([i \in 1..Len(parts.v) |-> parts.v[i].globals],
                                     <<>>)))

(***************************************************************************)
(* compiler/codegen.rs: is_builtin_function                                *)
(***************************************************************************)
is_builtin_function(name) == name \in {"print", "len", "to_string"}

(***************************************************************************)
(* compiler/optimizer.rs: constant folding.  The folder's own              *)
(* evaluate_binary_op / evaluate_unary_op yield Some(value), None (cannot  *)
(* be evaluated at compile time) or the error that ends the pass.          *)
(***************************************************************************)
\* Ok(Some(IrValue::Int(..))) of an integer result of the build's arithmetic.
fold_int(p) == IF p.k = "ok" THEN OkP(Some(IrInt(p.v.i))) ELSE p

\* A division rounding toward minus infinity.
fold_div_floor(a, b) == OkP(IntV(a \div b))

\* a / b of the Div arm, b # 0.
fold_div(a, b) == DivInt(a, b)

optimizer_evaluate_binary_op(left, op, right, checks) ==
    IF left.v = "int" /\ right.v = "int"
    THEN CASE op = "Add" -> fold_int(Arith(left.n + right.n, checks))
           [] op = "Sub" -> fold_int(Arith(left.n - right.n, checks))
           [] op = "Mul" -> fold_int(Arith(left.n * right.n, checks))
           [] op = "Div" ->
                 IF right.n = 0 THEN ErrP("RuntimeError", "Division by zero")
                 ELSE fold_int(fold_div(left.n, right.n))
           [] op = "Eq" -> OkP(Some(IrBool(left.n = right.n)))
           [] op = "Ne" -> OkP(Some(IrBool(left.n # right.n)))
           [] OTHER -> OkP(None)
    ELSE OkP(None)

optimizer_evaluate_unary_op(op, val, checks) ==
    CASE op = "Neg" /\ val.v = "int" -> fold_int(Arith(0 - val.n, checks))
      [] op = "Not" /\ val.v = "bool" -> OkP(Some(IrBool(~ val.b)))
      [] OTHER -> OkP(None)

RECURSIVE fold_constant_expr(_, _)
fold_constant_expr(expr, checks) ==
    CASE expr.x = "bin" ->
            LET first == IF expr.left.x = "lit" /\ expr.right.x = "lit"
                         THEN optimizer_evaluate_binary_op(expr.left.value, expr.op,
                                                           expr.right.value, checks)
                         ELSE OkP(None)
                folded_left == fold_constant_expr(expr.left, checks)
                folded_right == fold_constant_expr(expr.right, checks)
                again == IF folded_left.v.x = "lit" /\ folded_right.v.x = "lit"
                         THEN optimizer_evaluate_binary_op(folded_left.v.value, expr.op,
                                                           folded_right.v.value, checks)
                         ELSE OkP(None)
            IN  IF first.k # "ok" THEN first
                ELSE IF first.v.some THEN OkP(IrLiteral(first.v.x))
                ELSE IF folded_left.k # "ok" THEN folded_left
                ELSE IF folded_right.k # "ok" THEN folded_right
                ELSE IF again.k # "ok" THEN again
                ELSE IF again.v.some THEN OkP(IrLiteral(again.v.x))
                ELSE OkP(IrBinaryOp(folded_left.v, expr.op, folded_right.v))
      [] expr.x = "un" ->
            LET folded == fold_constant_expr(expr.expr, checks)
                result == IF folded.v.x = "lit"
                          THEN optimizer_evaluate_unary_op(expr.op, folded.v.value, checks)
                          ELSE OkP(None)
            IN  IF folded.k # "ok" THEN folded
                ELSE IF result.k # "ok" THEN result
                ELSE IF result.v.some THEN OkP(IrLiteral(result.v.x))
                ELSE OkP(IrUnaryOp(expr.op, folded.v))
      [] OTHER -> OkP(expr)

\* fold_constants_in_block and fold_constants_in_stmt rewrite in place; here
\* they yield the rewritten block or statement, or the first error.
\* The calls among them go through fold_in.
RECURSIVE fold_in(_, _)

\* for stmt in statements { fold_constants_in_stmt(stmt)?; }
fold_statements(statements, checks) ==
    IF statements = <<>> THEN OkP(<<>>)
    ELSE LET first == fold_in([op |-> "stmt", stmt |-> Head(statements)], checks)
         IN  IF first.k # "ok" THEN first
             ELSE LET rest == fold_in([op |-> "statements",
                                       statements |-> Tail(statements)], checks)
                  IN  IF rest.k # "ok" THEN rest ELSE OkP(<<first.v>> \o rest.v)

fold_constants_in_block(block, checks) ==
    IF block.b = "block"
    THEN LET r == fold_in([op |-> "statements", statements |-> block.statements], checks)
         IN  IF r.k # "ok" THEN r ELSE OkP(IrBlockBlock(r.v))
    ELSE LET e == fold_constant_expr(block.expr, checks)
         IN  IF e.k # "ok" THEN e ELSE OkP(IrBlockExpression(e.v))

fold_constants_in_stmt(stmt, checks) ==
    CASE stmt.st \in {"let", "assign"} ->
            LET v == fold_constant_expr(stmt.value, checks)
            IN  IF v.k # "ok" THEN v ELSE OkP([stmt EXCEPT !.value = v.v])
      [] stmt.st = "return" ->
            IF stmt.value.some
            THEN LET e == fold_constant_expr(stmt.value.x, checks)
                 IN  IF e.k # "ok" THEN e ELSE OkP(IrReturn(Some(e.v)))
            ELSE OkP(stmt)
      [] stmt.st = "expr" ->
            LET e == fold_constant_expr(stmt.expr, checks)
            IN  IF e.k # "ok" THEN e ELSE OkP(IrExpressionStmt(e.v))
      [] stmt.st = "if" ->
            LET c == fold_constant_expr(stmt.condition, checks)
                then_b == fold_in([op |-> "block", block |-> stmt.then_branch], checks)
                else_b == IF stmt.else_branch.some
                          THEN fold_in([op |-> "block", block |-> stmt.else_branch.x], checks)
                          ELSE OkP(IrBlockBlock(<<>>))
            IN  IF c.k # "ok" THEN c
                ELSE IF then_b.k # "ok" THEN then_b
                ELSE IF else_b.k # "ok" THEN else_b
                ELSE OkP(IrIf(c.v, then_b.v,
                              IF stmt.else_branch.some THEN Some(else_b.v) ELSE None))
      [] stmt.st = "while" ->
            LET c == fold_constant_expr(stmt.condition, checks)
                body == fold_in([op |-> "block", block |-> stmt.body], checks)
            IN  IF c.k # "ok" THEN c
                ELSE IF body.k # "ok" THEN body
                ELSE OkP(IrWhile(c.v, body.v))
      [] OTHER -> OkP(stmt)

\* for func in &mut program.functions { fold_constants_in_block(&mut func.body)?; }
fold_functions(functions, checks) ==
    IF functions = <<>> THEN OkP(<<>>)
    ELSE LET body == fold_in([op |-> "block", block |-> Head(functions).body], checks)
         IN  IF body.k # "ok" THEN body
             ELSE LET rest == fold_in([op |-> "functions", functions |-> Tail(functions)], checks)
                  IN  IF rest.k # "ok" THEN rest
                      ELSE OkP(<<[Head(functions) EXCEPT !.body = body.v]>> \o rest.v)

fold_in(call, checks) ==
    CASE call.op = "stmt" -> fold_constants_in_stmt(call.stmt, checks)
      [] call.op = "block" -> fold_constants_in_block(call.block, checks)
      [] call.op = "statements" -> fold_statements(call.statements, checks)
      [] call.op = "functions" -> fold_functions(call.functions, checks)

constant_folding(ir_program, checks) ==
    LET r == fold_in([op |-> "functions", functions |-> ir_program.functions], checks)
    IN  IF r.k # "ok" THEN r ELSE OkP([ir_program EXCEPT !.functions = r.v])

(***************************************************************************)
(* interpreter.rs: evaluate on the expressions the folder rewrites         *)
(* (Literal, Variable, BinaryOp, UnaryOp), under a binding of variables.   *)
(***************************************************************************)
ir_value_to_value(value) ==
    CASE value.v = "int" -> IntV(value.n)
      [] value.v = "bool" -> BoolV(value.b)
      [] value.v = "str" -> StrV(value.s)
      [] OTHER -> NoneV

RECURSIVE evaluate_ir(_, _, _)
evaluate_ir(expr, binding, checks) ==
    CASE expr.x = "lit" -> OkP(ir_value_to_value(expr.value))
      [] expr.x = "var" ->
            IF expr.name \in DOMAIN binding THEN OkP(binding[expr.name])
            ELSE ErrP("RuntimeError", "Undefined variable")
      [] expr.x = "bin" ->
            LET l == evaluate_ir(expr.left, binding, checks)
                r == evaluate_ir(expr.right, binding, checks)
            IN  IF l.k # "ok" THEN l
                ELSE IF r.k # "ok" THEN r
                ELSE evaluate_binary_op(l.v, expr.op, r.v, checks)
      [] expr.x = "un" ->
            LET v == evaluate_ir(expr.expr, binding, checks)
            IN  IF v.k # "ok" THEN v ELSE evaluate_unary_op(expr.op, v.v, checks)
      [] OTHER -> ErrP("RuntimeError", "Unsupported expression")

(***************************************************************************)
(* compiler/optimizer.rs: dead code elimination                            *)
(***************************************************************************)
\* The statement never ending a block.
ends_block_never(stmt) == FALSE

\* IrStatement::Return(_) => found_return = true
ends_block(stmt) == stmt.st = "return"

RECURSIVE remove_unreachable_code(_)
RECURSIVE clean_statements(_)
\* The arms of the match on a kept statement.
clean_statement(stmt) ==
    CASE stmt.st = "if" ->
            [stmt EXCEPT !.then_branch = remove_unreachable_code(@),
                         !.else_branch = IF @.some
                                         THEN Some(remove_unreachable_code(@.x))
                                         ELSE @]
      [] stmt.st = "while" -> [stmt EXCEPT !.body = remove_unreachable_code(@)]
      [] OTHER -> stmt

\* The loop over statements.drain(..) with its found_return flag.
clean_statements(statements) ==
    IF statements = <<>> THEN <<>>
    ELSE IF ends_block(Head(statements)) THEN <<Head(statements)>>
    ELSE <<clean_statement(Head(statements))>> \o clean_statements(Tail(statements))

remove_unreachable_code(block) ==
    IF block.b = "block" THEN IrBlockBlock(clean_statements(block.statements))
    ELSE block

RECURSIVE find_function_calls_in_expr(_)
find_function_calls_in_expr(expr) ==
    CASE expr.x = "call" ->
            {expr.callee}
            \cup UNION {find_function_calls_in_expr(expr.args[i]) :
                          i \in 1..Len(expr.args)}
      [] expr.x = "bin" ->
            find_function_calls_in_expr(expr.left)
            \cup find_function_calls_in_expr(expr.right)
      [] expr.x = "un" -> find_function_calls_in_expr(expr.expr)
      [] expr.x = "index" ->
            find_function_calls_in_expr(expr.base)
            \cup find_function_calls_in_expr(expr.index)
      [] OTHER -> {}

RECURSIVE find_function_calls(_)
find_function_calls_in_stmt(stmt) ==
    CASE stmt.st \in {"let", "assign", "expr"} ->
            find_function_calls_in_expr(IF stmt.st = "expr" THEN stmt.expr ELSE stmt.value)
      [] stmt.st = "return" ->
            IF stmt.value.some THEN find_function_calls_in_expr(stmt.value.x) ELSE {}
      [] stmt.st = "if" ->
            find_function_calls_in_expr(stmt.condition)
            \cup find_function_calls(stmt.then_branch)
            \cup (IF stmt.else_branch.some THEN find_function_calls(stmt.else_branch.x)
                  ELSE {})
      [] stmt.st = "while" ->
            find_function_calls_in_expr(stmt.condition)
            \cup find_function_calls(stmt.body)
      [] OTHER -> {}

find_function_calls(block) ==
    IF block.b = "block"
    THEN UNION {find_function_calls_in_stmt(block.statements[i]) :
                  i \in 1..Len(block.statements)}
    ELSE find_function_calls_in_expr(block.expr)

\* Vec::retain: the elements satisfying the test, in their order.
RECURSIVE retain(_, _)
retain(functions, kept) ==
    IF functions = <<>> THEN <<>>
    ELSE (IF Head(functions).name \in kept \/ Head(functions).is_public
          THEN <<Head(functions)>> ELSE <<>>)
         \o retain(Tail(functions), kept)

remove_unused_functions(ir_program) ==
    LET called_functions ==
            {"main"} \cup UNION {find_function_calls(ir_program.functions[i].body) :
                                   i \in 1..Len(ir_program.functions)}
    IN  [ir_program EXCEPT !.functions = retain(@, called_functions)]

\* for func in &mut program.functions { remove_unreachable_code(&mut func.body)?; }
remove_unreachable_code_in_functions(ir_program) ==
    [ir_program EXCEPT !.functions =
        [i \in 1..Len(ir_program.functions) |->
            [ir_program.functions[i] EXCEPT !.body = remove_unreachable_code(@)]]]

dead_code_elimination(ir_program) ==
    remove_unused_functions(remove_unreachable_code_in_functions(ir_program))

(***************************************************************************)
(* compiler/optimizer.rs: simple inlining.  Beside the rewritten term each *)
(* operator yields `inlined`, the names of the functions whose calls were  *)
(* replaced (the places that set *inlined_any = true).                     *)
(***************************************************************************)
\* size < 10
InlineSizeLimit == 10
\* for _iteration in 0..3
InlinePasses == 3

count_statements_in_block(block) ==
    IF block.b = "block" THEN Len(block.statements) ELSE 1

estimate_function_size(func) == count_statements_in_block(func.body)

RECURSIVE find_function_calls_in_expr_for_target(_, _)
find_function_calls_in_expr_for_target(expr, target) ==
    CASE expr.x = "call" -> expr.callee = target
      [] expr.x = "bin" ->
            find_function_calls_in_expr_for_target(expr.left, target)
            \/ find_function_calls_in_expr_for_target(expr.right, target)
      [] expr.x = "un" -> find_function_calls_in_expr_for_target(expr.expr, target)
      [] OTHER -> FALSE

RECURSIVE find_function_calls_in_block(_, _)
find_function_calls_in_stmt_for_target(stmt, target) ==
    CASE stmt.st \in {"let", "assign", "expr"} ->
            find_function_calls_in_expr_for_target(
                IF stmt.st = "expr" THEN stmt.expr ELSE stmt.value, target)
      [] stmt.st = "return" ->
            stmt.value.some /\ find_function_calls_in_expr_for_target(stmt.value.x, target)
      [] stmt.st = "if" ->
            \/ find_function_calls_in_expr_for_target(stmt.condition, target)
            \/ find_function_calls_in_block(stmt.then_branch, target)
            \/ (stmt.else_branch.some
                /\ find_function_calls_in_block(stmt.else_branch.x, target))
      [] stmt.st = "while" ->
            \/ find_function_calls_in_expr_for_target(stmt.condition, target)
            \/ find_function_calls_in_block(stmt.body, target)
      [] OTHER -> FALSE

find_function_calls_in_block(block, target) ==
    IF block.b = "block"
    THEN \E i \in 1..Len(block.statements) :
            find_function_calls_in_stmt_for_target(block.statements[i], target)
    ELSE find_function_calls_in_expr_for_target(block.expr, target)

is_recursive(func) == find_function_calls_in_block(func.body, func.name)

\* The indices pushed to inline_candidates.
inline_candidates(functions) ==
    {idx \in 1..Len(functions) :
        /\ estimate_function_size(functions[idx]) < InlineSizeLimit
        /\ ~ is_recursive(functions[idx])}

inline_call(func, args) ==
    IF Len(args) # Len(func.params)
    THEN ErrP("RuntimeError", "Argument count mismatch")
    ELSE IF func.body.b = "expr" THEN OkP(func.body.expr)
    ELSE ErrP("RuntimeError", "Complex function body inlining not yet implemented")

\* all_functions.iter().position(|f| f.name == callee): 0 where there is none.
position(all_functions, callee) ==
    IF \E i \in 1..Len(all_functions) : all_functions[i].name = callee
    THEN CHOOSE i \in 1..Len(all_functions) :
            /\ all_functions[i].name = callee
            /\ \A j \in 1..(i - 1) : all_functions[j].name # callee
    ELSE 0

\* The attempt made at a call: its replacement, if the callee is a candidate
\* and inline_call accepts it.
try_inline(expr, all_functions, candidates) ==
    LET p == position(all_functions, expr.callee)
        r == inline_call(all_functions[p], expr.args)
    IN  IF p # 0 /\ p \in candidates /\ r.k = "ok"
        THEN [x |-> r.v, inlined |-> {expr.callee}]
        ELSE [x |-> expr, inlined |-> {}]

RECURSIVE inline_calls_in_expr(_, _, _)
inline_calls_in_expr(expr, all_functions, candidates) ==
    CASE expr.x = "call" -> try_inline(expr, all_functions, candidates)
      [] expr.x = "bin" ->
            LET l == inline_calls_in_expr(expr.left, all_functions, candidates)
                r == inline_calls_in_expr(expr.right, all_functions, candidates)
            IN  [x |-> [expr EXCEPT !.left = l.x, !.right = r.x],
                 inlined |-> l.inlined \cup r.inlined]
      [] expr.x = "un" ->
            LET v == inline_calls_in_expr(expr.expr, all_functions, candidates)
            IN  [x |-> [expr EXCEPT !.expr = v.x], inlined |-> v.inlined]
      [] expr.x = "index" ->
            LET b == inline_calls_in_expr(expr.base, all_functions, candidates)
                i == inline_calls_in_expr(expr.index, all_functions, candidates)
            IN  [x |-> [expr EXCEPT !.base = b.x, !.index = i.x],
                 inlined |-> b.inlined \cup i.inlined]
      [] OTHER -> [x |-> expr, inlined |-> {}]

RECURSIVE inline_calls_in_block(_, _, _)
inline_calls_in_stmt(stmt, all_functions, candidates) ==
    CASE stmt.st \in {"let", "assign"} ->
            LET v == inline_calls_in_expr(stmt.value, all_functions, candidates)
            IN  [x |-> [stmt EXCEPT !.value = v.x], inlined |-> v.inlined]
      [] stmt.st = "return" ->
            IF stmt.value.some
            THEN LET v == inline_calls_in_expr(stmt.value.x, all_functions, candidates)
                 IN  [x |-> IrReturn(Some(v.x)), inlined |-> v.inlined]
            ELSE [x |-> stmt, inlined |-> {}]
      [] stmt.st = "expr" ->
            LET v == inline_calls_in_expr(stmt.expr, all_functions, candidates)
            IN  [x |-> [stmt EXCEPT !.expr = v.x], inlined |-> v.inlined]
      [] stmt.st = "if" ->
            LET c == inline_calls_in_expr(stmt.condition, all_functions, candidates)
                t == inline_calls_in_block(stmt.then_branch, all_functions, candidates)
                e == IF stmt.else_branch.some
                     THEN inline_calls_in_block(stmt.else_branch.x, all_functions,
                                                candidates)
                     ELSE [x |-> IrNone, inlined |-> {}]
            IN  [x |-> IrIf(c.x, t.x, IF stmt.else_branch.some THEN Some(e.x) ELSE None),
                 inlined |-> c.inlined \cup t.inlined \cup e.inlined]
      [] stmt.st = "while" ->
            LET c == inline_calls_in_expr(stmt.condition, all_functions, candidates)
                b == inline_calls_in_block(stmt.body, all_functions, candidates)
            IN  [x |-> IrWhile(c.x, b.x), inlined |-> c.inlined \cup b.inlined]
      [] OTHER -> [x |-> stmt, inlined |-> {}]

inline_calls_in_block(block, all_functions, candidates) ==
    IF block.b = "block"
    THEN LET rs == [i \in 1..Len(block.statements) |->
                      LET stmt == block.statements[i]
                      IN  IF stmt.st = "expr" /\ stmt.expr.x = "call"
                          THEN LET t == try_inline(stmt.expr, all_functions, candidates)
                               IN  [x |-> IrExpressionStmt(t.x), inlined |-> t.inlined]
                          ELSE inline_calls_in_stmt(stmt, all_functions, candidates)]
         IN  [x |-> IrBlockBlock([i \in 1..Len(rs) |-> rs[i].x]),
              inlined |-> UNION {rs[i].inlined : i \in 1..Len(rs)}]
    ELSE IF block.expr.x = "call"
    THEN LET t == try_inline(block.expr, all_functions, candidates)
         IN  [x |-> IrBlockExpression(t.x), inlined |-> t.inlined]
    ELSE [x |-> block, inlined |-> {}]

\* The passes of simple_inlining still to run, from a program and the names
\* inlined so far.
RECURSIVE inlining_passes(_, _, _, _)
inlining_passes(ir_program, candidates, inlined, remaining) ==
    IF remaining = 0 THEN [program |-> ir_program, inlined |-> inlined]
    ELSE LET functions_clone == ir_program.functions
             rs == [i \in 1..Len(functions_clone) |->
                      inline_calls_in_block(functions_clone[i].body, functions_clone,
                                            candidates)]
             now == UNION {rs[i].inlined : i \in 1..Len(rs)}
             next == [ir_program EXCEPT !.functions =
                         [i \in 1..Len(rs) |-> [functions_clone[i] EXCEPT !.body = rs[i].x]]]
         IN  IF now = {} THEN [program |-> next, inlined |-> inlined]
             ELSE inlining_passes(next, candidates, inlined \cup now, remaining - 1)

simple_inlining(ir_program) ==
    inlining_passes(ir_program, inline_candidates(ir_program.functions), {}, InlinePasses)

(***************************************************************************)
(* The behaviour of an IR program that can be observed: what a call of     *)
(* main prints, and the value or error it ends with.  Calls, blocks and    *)
(* statements follow interpreter.rs (Expr::Call: the arguments left to     *)
(* right, then print or the function's body in a frame of its parameters;  *)
(* evaluate_block; execute_stmt; Expr::If; Expr::While).  Overflow wraps.  *)
(* MaxCallDepth bounds the nesting of calls and the passes of a loop: an   *)
(* evaluation that needs more ends in the error kind "Depth".              *)
(***************************************************************************)
MaxCallDepth == 3

Failure(kind, msg) == [t |-> "error", kind |-> kind, msg |-> msg]
Effect(k, v, out, binding, flow) ==
    [k |-> k, v |-> v, out |-> out, binding |-> binding, flow |-> flow]
\* The calls among them go through observe_in.
RECURSIVE observe_in(_, _, _, _, _)
self_observe_expr(expr, functions, binding, out, fuel) ==
    observe_in([op |-> "expr", expr |-> expr], functions, binding, out, fuel)
self_observe_args(args, functions, binding, out, fuel) ==
    observe_in([op |-> "args", args |-> args], functions, binding, out, fuel)
self_observe_block(block, functions, binding, out, fuel) ==
    observe_in([op |-> "block", block |-> block], functions, binding, out, fuel)
self_observe_while(stmt, functions, binding, out, fuel) ==
    observe_in([op |-> "while", stmt |-> stmt], functions, binding, out, fuel)
observe_args(args, functions, binding, out, fuel) ==
    IF args = <<>> THEN Effect("ok", <<>>, out, binding, "normal")
    ELSE LET h == self_observe_expr(Head(args), functions, binding, out, fuel)
         IN  IF h.k # "ok" THEN h
             ELSE LET t == self_observe_args(Tail(args), functions, binding, h.out, fuel)
                  IN  IF t.k # "ok" THEN t ELSE [t EXCEPT !.v = <<h.v>> \o @]

observe_expr(expr, functions, binding, out, fuel) ==
    LET Res(p) == IF p.k = "ok" THEN Effect("ok", p.v, out, binding, "normal")
                  ELSE Effect("err", Failure(p.kind, p.msg), out, binding, "normal")
    IN
    CASE expr.x = "lit" -> Res(OkP(ir_value_to_value(expr.value)))
      [] expr.x = "var" ->
            IF expr.name \in DOMAIN binding THEN Res(OkP(binding[expr.name]))
            ELSE Res(ErrP("RuntimeError", "Undefined variable"))
      [] expr.x = "bin" ->
            LET l == self_observe_expr(expr.left, functions, binding, out, fuel)
                r == self_observe_expr(expr.right, functions, binding, l.out, fuel)
                p == evaluate_binary_op(l.v, expr.op, r.v, FALSE)
            IN  IF l.k # "ok" THEN l
                ELSE IF r.k # "ok" THEN r
                ELSE IF p.k = "ok" THEN [r EXCEPT !.v = p.v]
                ELSE [r EXCEPT !.k = "err", !.v = Failure(p.kind, p.msg)]
      [] expr.x = "un" ->
            LET v == self_observe_expr(expr.expr, functions, binding, out, fuel)
                p == evaluate_unary_op(expr.op, v.v, FALSE)
            IN  IF v.k # "ok" THEN v
                ELSE IF p.k = "ok" THEN [v EXCEPT !.v = p.v]
                ELSE [v EXCEPT !.k = "err", !.v = Failure(p.kind, p.msg)]
      [] expr.x = "index" ->
            LET b == self_observe_expr(expr.base, functions, binding, out, fuel)
                i == self_observe_expr(expr.index, functions, binding, b.out, fuel)
                p == index_value(b.v, i.v)
            IN  IF b.k # "ok" THEN b
                ELSE IF i.k # "ok" THEN i
                ELSE IF p.k = "ok" THEN [i EXCEPT !.v = p.v]
                ELSE [i EXCEPT !.k = "err", !.v = Failure(p.k, p.msg)]
      [] OTHER ->
            LET a == self_observe_args(expr.args, functions, binding, out, fuel)
                at == position(functions, expr.callee)
                func == functions[at]
                frame == [n \in {func.params[j] : j \in 1..Len(func.params)} |->
                            a.v[CHOOSE j \in 1..Len(func.params) :
                                    /\ func.params[j] = n
                                    /\ \A later \in (j + 1)..Len(func.params) :
                                          func.params[later] # n]]
                r == self_observe_block(func.body, functions, frame, a.out, fuel - 1)
            IN  IF a.k # "ok" THEN a
                ELSE IF expr.callee = "print"
                THEN Effect("ok", NoneV, Append(a.out, a.v), binding, "normal")
                ELSE IF at = 0
                THEN Effect("err", Failure("RuntimeError", "Undefined variable"), a.out,
                            binding, "normal")
                ELSE IF Len(a.v) # Len(func.params)
                THEN Effect("err", Failure("RuntimeError", "Function expects arguments"),
                            a.out, binding, "normal")
                ELSE IF fuel = 0
                THEN Effect("err", Failure("Depth", ""), a.out, binding, "normal")
                ELSE Effect(r.k, r.v, r.out, binding, "normal")

observe_while(stmt, functions, binding, out, fuel) ==
    LET c == self_observe_expr(stmt.condition, functions, binding, out, fuel)
        b == self_observe_block(stmt.body, functions, binding, c.out, fuel)
    IN  IF c.k # "ok" THEN c
        ELSE IF ~ is_truthy(c.v) THEN [c EXCEPT !.v = NoneV]
        ELSE IF fuel = 0 THEN Effect("err", Failure("Depth", ""), c.out, binding, "normal")
        ELSE IF b.k # "ok" \/ b.flow = "return" THEN b
        ELSE IF b.flow = "break" THEN [b EXCEPT !.v = NoneV, !.flow = "normal"]
        ELSE self_observe_while(stmt, functions, b.binding, b.out, fuel - 1)

observe_stmts(statements, functions, binding, out, fuel, last_val) ==
    IF statements = <<>> THEN Effect("ok", last_val, out, binding, "normal")
    ELSE LET stmt == Head(statements)
             value == self_observe_expr(stmt.value, functions, binding, out, fuel)
             c == self_observe_expr(stmt.condition, functions, binding, out, fuel)
             r == CASE stmt.st \in {"let", "assign"} ->
                          IF value.k # "ok" THEN value
                          ELSE IF stmt.st = "assign" /\ stmt.name \notin DOMAIN binding
                          THEN [value EXCEPT !.k = "err",
                                             !.v = Failure("RuntimeError", "Undefined variable")]
                          ELSE [value EXCEPT !.binding = MapInsert(binding, stmt.name, value.v)]
                    [] stmt.st = "return" ->
                          IF stmt.value.some
                          THEN LET x == self_observe_expr(stmt.value.x, functions, binding,
                                                     out, fuel)
                               IN  IF x.k # "ok" THEN x ELSE [x EXCEPT !.flow = "return"]
                          ELSE Effect("ok", NoneV, out, binding, "return")
                    [] stmt.st = "break" -> Effect("ok", NoneV, out, binding, "break")
                    [] stmt.st = "continue" -> Effect("ok", NoneV, out, binding, "continue")
                    [] stmt.st = "expr" ->
                          self_observe_expr(stmt.expr, functions, binding, out, fuel)
                    [] stmt.st = "if" ->
                          IF c.k # "ok" THEN c
                          ELSE IF is_truthy(c.v)
                          THEN self_observe_block(stmt.then_branch, functions, binding,
                                             c.out, fuel)
                          ELSE IF stmt.else_branch.some
                          THEN self_observe_block(stmt.else_branch.x, functions, binding,
                                             c.out, fuel)
                          ELSE [c EXCEPT !.v = NoneV]
                    [] OTHER -> self_observe_while(stmt, functions, binding, out, fuel)
         IN  IF r.k # "ok" \/ r.flow # "normal" THEN r
             ELSE observe_in([op |-> "stmts", statements |-> Tail(statements), last_val |-> r.v],
                             functions, r.binding, r.out, fuel)

observe_block(block, functions, binding, out, fuel) ==
    IF block.b = "block"
    THEN observe_in([op |-> "stmts", statements |-> block.statements, last_val |-> NoneV],
                    functions, binding, out, fuel)
    ELSE self_observe_expr(block.expr, functions, binding, out, fuel)

observe_in(call, functions, binding, out, fuel) ==
    CASE call.op = "expr" -> observe_expr(call.expr, functions, binding, out, fuel)
      [] call.op = "args" -> observe_args(call.args, functions, binding, out, fuel)
      [] call.op = "block" -> observe_block(call.block, functions, binding, out, fuel)
      [] call.op = "while" -> observe_while(call.stmt, functions, binding, out, fuel)
      [] call.op = "stmts" ->
            observe_stmts(call.statements, functions, binding, out, fuel, call.last_val)

\* What a call of main shows: the lines printed and the value or error.
observe(ir_program) ==
    LET r == observe_in([op |-> "expr", expr |-> IrCall("main", <<>>)],
                        ir_program.functions, <<>>, <<>>, MaxCallDepth)
    IN  [k |-> r.k, v |-> r.v, out |-> r.out]

(***************************************************************************)
(* The compiler's passes applied to bounded inputs: one application of     *)
(* ast_to_ir, fold_constant_expr, dead_code_elimination or simple_inlining *)
(* per behaviour, its argument in opCall and its result in opResult.       *)
(***************************************************************************)
IrNum(n) == IrLiteral(IrInt(n))
IrCallNoArgs(name) == IrCall(name, <<>>)

IrLeaves ==
    {IrNum(n) : n \in {0, 2, IntMax}} \cup {IrLiteral(IrBool(TRUE)), IrVariable("x")}
FoldOps == {"Add", "Sub", "Mul", "Div", "Eq", "Ne", "And"}
IrExprsFlat ==
    IrLeaves
    \cup {IrBinaryOp(l, op, r) : l \in IrLeaves, op \in FoldOps, r \in IrLeaves}
    \cup {IrUnaryOp(op, l) : op \in UnaryOps, l \in IrLeaves}
IrExprs ==
    IrExprsFlat
    \cup {IrBinaryOp(a, op, l) : a \in IrExprsFlat, op \in FoldOps, l \in IrLeaves}
    \cup {IrBinaryOp(l, op, a) : l \in IrLeaves, op \in FoldOps, a \in IrExprsFlat}
    \cup {IrUnaryOp(op, a) : op \in UnaryOps, a \in IrExprsFlat}

Bindings ==
    {EmptyMap, MapInsert(EmptyMap, "x", IntV(2)), MapInsert(EmptyMap, "x", BoolV(FALSE))}

\* Statements of the function bodies given to dead code elimination.
NestedReturn ==
    IrIf(IrVariable("x"),
         IrBlockBlock(<<IrWhile(IrVariable("x"),
                                IrBlockBlock(<<IrLet("b", IrNum(1)), IrReturn(None),
                                               IrExpressionStmt(IrCallNoArgs("h"))>>)),
                        IrReturn(Some(IrNum(2))),
                        IrBreak>>),
         Some(IrBlockBlock(<<IrReturn(None), IrLet("c", IrNum(3))>>)))
DceStatements ==
    {IrLet("a", IrNum(1)), IrReturn(None), IrExpressionStmt(IrCallNoArgs("g")),
     NestedReturn,
     IrWhile(IrVariable("x"),
             IrBlockBlock(<<IrContinue, IrReturn(None), IrAssign("a", IrNum(2))>>))}

\* fn main() { BODY }  fn g() { h() }  fn h() { }  fn k() { }, with g and h
\* public or not, main not public and k public.
ProgDce(body, g_public, h_public) ==
    IrProgram(<<IrFunction("main", <<>>, IrBlockBlock(body), FALSE),
                IrFunction("g", <<>>,
                           IrBlockBlock(<<IrExpressionStmt(IrCallNoArgs("h"))>>),
                           g_public),
                IrFunction("h", <<>>, IrBlockBlock(<<>>), h_public),
                IrFunction("k", <<>>, IrBlockExpression(IrNum(0)), TRUE)>>,
              <<>>)
DcePrograms ==
    {ProgDce(body, g_public, h_public) :
        body \in SeqsUpTo(DceStatements, MaxBody), g_public \in BOOLEAN,
        h_public \in BOOLEAN}

\* Bodies of the function f whose calls the inliner may replace.
InlineBodies ==
    {IrBlockExpression(IrNum(1)),
     IrBlockExpression(IrCallNoArgs("f")),
     IrBlockExpression(IrBinaryOp(IrCallNoArgs("f"), "Add", IrNum(1))),
     IrBlockExpression(IrUnaryOp("Neg", IrCallNoArgs("f"))),
     IrBlockExpression(IrCall("g", <<IrCallNoArgs("f")>>)),
     IrBlockExpression(IrIndex(IrVariable("a"), IrCallNoArgs("f"))),
     IrBlockBlock(<<IrReturn(Some(IrNum(1)))>>),
     IrBlockBlock(<<IrExpressionStmt(IrCallNoArgs("f")), IrReturn(None)>>)}

\* Bodies of main, each with a call of f.
InlineCallSites ==
    {<<IrExpressionStmt(IrCallNoArgs("f"))>>,
     <<IrLet("a", IrCallNoArgs("f"))>>,
     <<IrReturn(Some(IrBinaryOp(IrCallNoArgs("f"), "Add", IrNum(1))))>>,
     <<IrIf(IrCallNoArgs("f"), IrBlockExpression(IrCallNoArgs("f")), None)>>,
     <<IrWhile(IrVariable("x"),
               IrBlockBlock(<<IrAssign("a", IrIndex(IrVariable("a"),
                                                    IrCallNoArgs("f")))>>))>>,
     <<IrExpressionStmt(IrCall("f", <<IrNum(1)>>))>>}

\* fn main() { SITE }  fn f() BODY  fn g(a) 0
ProgInline(site, body) ==
    IrProgram(<<IrFunction("main", <<>>, IrBlockBlock(site), TRUE),
                IrFunction("f", <<>>, body, TRUE),
                IrFunction("g", <<"a">>, IrBlockExpression(IrNum(0)), TRUE)>>,
              <<>>)

\* Arguments of a call of k: a literal, calls that print, a failing division
\* and an unbound variable.
InlineArguments ==
    {IrNum(1), IrCall("print", <<IrNum(1)>>), IrCallNoArgs("h"),
     IrBinaryOp(IrNum(1), "Div", IrNum(0)), IrVariable("u")}
\* Bodies of k(a): three without its parameter, two with it.
InlineArgBodies ==
    {IrNum(0), IrCall("print", <<IrNum(7)>>), IrBinaryOp(IrNum(1), "Add", IrNum(2)),
     IrVariable("a"), IrBinaryOp(IrVariable("a"), "Add", IrNum(1))}
InlineArgSites(arg) ==
    {<<IrExpressionStmt(IrCall("k", <<arg>>))>>,
     <<IrLet("b", IrCall("k", <<arg>>)), IrReturn(Some(IrVariable("b")))>>,
     <<IrReturn(Some(IrBinaryOp(IrCall("k", <<arg>>), "Add", IrNum(1))))>>}
\* fn main() { SITE }  fn k(a) BODY  fn h() print(2)
ProgInlineArg(site, body) ==
    IrProgram(<<IrFunction("main", <<>>, IrBlockBlock(site), TRUE),
                IrFunction("k", <<"a">>, IrBlockExpression(body), TRUE),
                IrFunction("h", <<>>,
                           IrBlockExpression(IrCall("print", <<IrNum(2)>>)), TRUE)>>,
              <<>>)
InlinePrograms ==
    {ProgInline(site, body) : site \in InlineCallSites, body \in InlineBodies}
    \cup {ProgInlineArg(site, body) :
            site \in UNION {InlineArgSites(arg) : arg \in InlineArguments},
            body \in InlineArgBodies}

\* Expressions with an operation on two integer literals at each expression
\* position: the expression itself, an operand, the operand of a unary
\* operation, a call argument, an index base and an index.
FoldSites(e) ==
    {e, IrBinaryOp(e, "Add", IrVariable("x")), IrBinaryOp(IrVariable("x"), "Mul", e),
     IrUnaryOp("Neg", e), IrCall("print", <<e>>), IrIndex(e, IrNum(0)),
     IrIndex(IrVariable("a"), e)}

\* a OP b on integer literals, OP one of + - * / == != (and && which has no
\* evaluator).
FoldOperations ==
    {IrBinaryOp(IrNum(a), op, IrNum(b)) : a \in {1, IntMax}, op \in FoldOps, b \in {0, 2}}

\* The statements an expression can stand in.
FoldStatements(e) ==
    {IrLet("a", e), IrAssign("a", e), IrReturn(Some(e)), IrExpressionStmt(e),
     IrIf(e, IrBlockExpression(e), Some(IrBlockBlock(<<IrExpressionStmt(e)>>))),
     IrWhile(e, IrBlockBlock(<<IrBreak, IrLet("b", e)>>))}

\* fn main() { STMT }  fn k() EXPR
ProgFold(stmt, e) ==
    IrProgram(<<IrFunction("main", <<>>, IrBlockBlock(<<stmt>>), TRUE),
                IrFunction("k", <<>>, IrBlockExpression(e), TRUE)>>,
              <<>>)
FoldPrograms ==
    {ProgFold(stmt, e) :
        stmt \in UNION {FoldStatements(site) :
                          site \in UNION {FoldSites(o) : o \in FoldOperations}},
        e \in {IrNum(0), IrBinaryOp(IrNum(1), "Add", IrNum(2))}}

\* Top-level statements that are neither a function definition nor a `let`
\* with a literal initializer.
OtherTopLevel ==
    {Let("x", Bin(Num(1), "Add", Num(2))),
     Let("x", Lit(ArrayL(<<Num(1)>>))),
     StructP,
     EnumDef("Result", <<"Err">>),
     Assign("g", Num(2)),
     Say(Num(1)),
     IfS(Lit(BoolL(TRUE)), <<Say(Num(1))>>)}

\* let g = 1  STMT  fn main() { print(g) }
ProgTopLevel(stmt) ==
    <<Let("g", Num(1)), stmt, Fn("main", <<>>, <<Say(Var("g"))>>)>>

\* fn f(a) { return a }  fn main() { NAME(1) }
ProgCallee(name) ==
    <<Fn("f", <<"a">>, <<Return(Some(Var("a")))>>),
      Fn("main", <<>>, <<ExprS(CallV(name, <<Num(1)>>))>>)>>
CalleeNames == {"f", "main", "print", "len", "to_string", "foo"}

LowerPrograms ==
    Programs
    \cup {ProgTopLevel(stmt) : stmt \in OtherTopLevel}
    \cup {<<Let("g", Num(1)), Fn("main", <<>>, <<Say(Var("g"))>>)>>}
    \cup {ProgCallee(name) : name \in CalleeNames}

InitCompiler ==
    /\ IdleOps
    /\ IdleInterpreter
    /\ IdleLexer
    /\ IdleDriver

ApplyAstToIr ==
    /\ opCall.fn = "idle"
    /\ \E statements \in LowerPrograms :
          /\ opCall' = [fn |-> "ast_to_ir", program |-> statements]
          /\ opResult' = ast_to_ir(statements)
    /\ UNCHANGED <<interpVars, lexVars, driverVars>>

ApplyFoldConstantExpr ==
    /\ opCall.fn = "idle"
    /\ \E expr \in IrExprs, checks \in BOOLEAN :
          /\ opCall' = [fn |-> "fold_constant_expr", expr |-> expr, checks |-> checks]
          /\ opResult' = fold_constant_expr(expr, checks)
    /\ UNCHANGED <<interpVars, lexVars, driverVars>>

ApplyDeadCodeElimination ==
    /\ opCall.fn = "idle"
    /\ \E ir \in DcePrograms :
          /\ opCall' = [fn |-> "dead_code_elimination", program |-> ir]
          /\ opResult' = OkP(dead_code_elimination(ir))
    /\ UNCHANGED <<interpVars, lexVars, driverVars>>

ApplySimpleInlining ==
    /\ opCall.fn = "idle"
    /\ \E ir \in InlinePrograms :
          /\ opCall' = [fn |-> "simple_inlining", program |-> ir]
          /\ opResult' = [k |-> "ok", v |-> simple_inlining(ir).program,
                          inlined |-> simple_inlining(ir).inlined]
    /\ UNCHANGED <<interpVars, lexVars, driverVars>>

ApplyConstantFolding ==
    /\ opCall.fn = "idle"
    /\ \E ir \in FoldPrograms, checks \in BOOLEAN :
          /\ opCall' = [fn |-> "constant_folding", program |-> ir, checks |-> checks]
          /\ opResult' = constant_folding(ir, checks)
    /\ UNCHANGED <<interpVars, lexVars, driverVars>>

NextCompiler ==
    \/ ApplyConstantFolding
    \/ ApplyAstToIr
    \/ ApplyFoldConstantExpr
    \/ ApplyDeadCodeElimination
    \/ ApplySimpleInlining

SpecCompiler == InitCompiler /\ [][NextCompiler]_vars

(***************************************************************************)
(* type_checker.rs: TypeChecker.  A Type is a record with its variant in   *)
(* `ty`.  The checker's state is `environment` (name -> Type) and          *)
(* `struct_defs` (name -> fields, each a name and an optional Type).  An   *)
(* AST record without a `type_annotation` / `return_type` field has None   *)
(* there.  A TypeError of a check that compares types also carries what    *)
(* the check got and what it would have accepted (`site`, `got`, `want`),  *)
(* for the properties.                                                     *)
(***************************************************************************)
TypeInt == [ty |-> "Int"]
TypeFloat == [ty |-> "Float"]
TypeString == [ty |-> "String"]
TypeBool == [ty |-> "Bool"]
TypeNone == [ty |-> "None"]
TypeInfer == [ty |-> "Infer"]
TypeArray(elem) == [ty |-> "Array", elem |-> elem]
TypeStruct(name) == [ty |-> "Struct", name |-> name]
TypeEnum(name) == [ty |-> "Enum", name |-> name]

LetTyped(name, type_annotation, value) ==
    [s |-> "let", name |-> name, type_annotation |-> Some(type_annotation),
     value |-> value]
TypedField(name, type_annotation) == [name |-> name, type_annotation |-> type_annotation]
option_field(record, field) ==
    IF field \in DOMAIN record THEN record[field] ELSE None

TypeErr(msg) == ErrP("TypeError", msg)
Mismatch(msg, site, got, want) ==
    [k |-> "err", kind |-> "TypeError", msg |-> msg, site |-> site, got |-> got,
     want |-> want]

types_compatible(t1, t2) ==
    t1 = TypeInfer \/ t2 = TypeInfer \/ t1 = t2

\* fields.iter().find(|(fname, _)| fname == field): its index, or 0.
find_field(fields, field) ==
    IF \E i \in 1..Len(fields) : fields[i].name = field
    THEN CHOOSE i \in 1..Len(fields) :
            /\ fields[i].name = field
            /\ \A j \in 1..(i - 1) : fields[j].name # field
    ELSE 0

\* The calls among them go through infer_in.
RECURSIVE infer_in(_, _)
self_infer_expression_type(tc, expr) == infer_in([op |-> "expr", expr |-> expr], tc)
infer_block_type(tc, statements, last_type) ==
    IF statements = <<>> THEN OkP(last_type)
    ELSE LET stmt == Head(statements)
             t == IF stmt.s = "return"
                  THEN IF stmt.value.some
                       THEN self_infer_expression_type(tc, stmt.value.x)
                       ELSE OkP(last_type)
                  ELSE IF stmt.s = "expr" THEN self_infer_expression_type(tc, stmt.expr)
                  ELSE OkP(last_type)
         IN  IF t.k # "ok" THEN t ELSE infer_in([op |-> "block", statements |-> Tail(statements), last_type |-> t.v], tc)

infer_expression_type(tc, expr) ==
    CASE expr.e = "lit" ->
            CASE expr.lit.l = "int" -> OkP(TypeInt)
              [] expr.lit.l = "str" -> OkP(TypeString)
              [] expr.lit.l = "bool" -> OkP(TypeBool)
              [] expr.lit.l = "array" ->
                    IF expr.lit.elems = <<>> THEN OkP(TypeArray(TypeInfer))
                    ELSE LET first_type == self_infer_expression_type(tc, expr.lit.elems[1])
                         IN  IF first_type.k # "ok" THEN first_type
                             ELSE OkP(TypeArray(first_type.v))
              [] OTHER -> OkP(TypeNone)
      [] expr.e = "structlit" -> OkP(TypeStruct(expr.name))
      [] expr.e = "enumvariant" -> OkP(TypeEnum(expr.enum_name))
      [] expr.e = "var" ->
            IF expr.name \in DOMAIN tc.environment THEN OkP(tc.environment[expr.name])
            ELSE TypeErr("Undefined variable")
      [] expr.e = "bin" ->
            LET left_type == self_infer_expression_type(tc, expr.left)
                right_type == self_infer_expression_type(tc, expr.right)
                l == left_type.v
                r == right_type.v
            IN  IF left_type.k # "ok" THEN left_type
                ELSE IF right_type.k # "ok" THEN right_type
                ELSE CASE expr.op \in {"Add", "Sub", "Mul", "Div"} ->
                            IF l = TypeInt /\ r = TypeInt THEN OkP(TypeInt)
                            ELSE IF l = TypeFloat \/ r = TypeFloat THEN OkP(TypeFloat)
                            ELSE IF l = TypeString \/ r = TypeString THEN OkP(TypeString)
                            ELSE TypeErr("Invalid operation")
                       [] expr.op \in {"Eq", "Ne", "Lt", "Le", "Gt", "Ge"} -> OkP(TypeBool)
                       [] expr.op \in {"And", "Or"} ->
                            IF l = TypeBool /\ r = TypeBool THEN OkP(TypeBool)
                            ELSE Mismatch("Logical operations require bool operands",
                                          "logical", <<l, r>>, <<{TypeBool}, {TypeBool}>>)
                       [] OTHER ->
                            IF l = TypeInt /\ r = TypeInt THEN OkP(TypeInt)
                            ELSE Mismatch("Modulo requires int operands", "modulo",
                                          <<l, r>>, <<{TypeInt}, {TypeInt}>>)
      [] expr.e = "un" ->
            LET expr_type == self_infer_expression_type(tc, expr.expr)
            IN  IF expr_type.k # "ok" THEN expr_type
                ELSE IF expr.op = "Not"
                THEN IF expr_type.v = TypeBool THEN OkP(TypeBool)
                     ELSE Mismatch("Not operator requires bool operand", "not",
                                   <<expr_type.v>>, <<{TypeBool}>>)
                ELSE IF expr_type.v \in {TypeInt, TypeFloat} THEN expr_type
                     ELSE Mismatch("Negation requires numeric operand", "negation",
                                   <<expr_type.v>>, <<{TypeInt, TypeFloat}>>)
      [] expr.e = "call" ->
            IF expr.callee.e = "var" /\ expr.callee.name = "print" THEN OkP(TypeNone)
            ELSE IF expr.callee.e = "var" /\ expr.callee.name = "len"
            THEN IF Len(expr.args) = 1 THEN OkP(TypeInt)
                 ELSE TypeErr("len() expects 1 argument")
            ELSE OkP(TypeInfer)
      [] expr.e = "block" -> infer_in([op |-> "block", statements |-> expr.statements,
                                      last_type |-> TypeNone], tc)
      [] expr.e = "if" ->
            LET then_type == self_infer_expression_type(tc, expr.then_branch)
                else_type == self_infer_expression_type(tc, expr.else_branch.x)
            IN  IF then_type.k # "ok" THEN then_type
                ELSE IF ~ expr.else_branch.some THEN OkP(TypeNone)
                ELSE IF else_type.k # "ok" THEN else_type
                ELSE IF types_compatible(then_type.v, else_type.v) THEN then_type
                ELSE OkP(TypeInfer)
      [] expr.e \in {"while", "for"} -> OkP(TypeNone)
      [] expr.e = "match" -> OkP(TypeInfer)
      [] expr.e = "fn" ->
            IF option_field(expr, "return_type").some
            THEN OkP(option_field(expr, "return_type").x)
            ELSE OkP(TypeInfer)
      [] expr.e = "index" ->
            LET array_type == self_infer_expression_type(tc, expr.array)
                index_type == self_infer_expression_type(tc, expr.index)
            IN  IF array_type.k # "ok" THEN array_type
                ELSE IF index_type.k # "ok" THEN index_type
                ELSE IF index_type.v # TypeInt
                THEN Mismatch("Array index must be Int", "index", <<index_type.v>>,
                              <<{TypeInt}>>)
                ELSE IF array_type.v.ty = "Array" THEN OkP(array_type.v.elem)
                ELSE IF array_type.v = TypeString THEN OkP(TypeString)
                ELSE TypeErr("Cannot index type")
      [] OTHER ->
            LET obj_type == self_infer_expression_type(tc, expr.object)
                fields == tc.struct_defs[obj_type.v.name]
                at == find_field(fields, expr.field)
            IN  IF obj_type.k # "ok" THEN obj_type
                ELSE IF /\ obj_type.v.ty = "Struct"
                        /\ obj_type.v.name \in DOMAIN tc.struct_defs
                        /\ at # 0
                        /\ fields[at].type_annotation.some
                THEN OkP(fields[at].type_annotation.x)
                ELSE OkP(TypeInfer)

infer_in(call, tc) ==
    IF call.op = "expr" THEN infer_expression_type(tc, call.expr)
    ELSE infer_block_type(tc, call.statements, call.last_type)

CheckOk(tc) == [k |-> "ok", tc |-> tc]

check_statement(tc, stmt) ==
    CASE stmt.s = "let" ->
            LET value_type == self_infer_expression_type(tc, stmt.value)
                type_annotation == option_field(stmt, "type_annotation")
            IN  IF value_type.k # "ok" THEN value_type
                ELSE IF type_annotation.some
                THEN IF ~ types_compatible(value_type.v, type_annotation.x)
                     THEN Mismatch("Type mismatch", "let", <<value_type.v>>,
                                   <<{type_annotation.x}>>)
                     ELSE CheckOk([tc EXCEPT !.environment =
                                     MapInsert(@, stmt.name, type_annotation.x)])
                ELSE CheckOk([tc EXCEPT !.environment =
                                MapInsert(@, stmt.name, value_type.v)])
      [] stmt.s = "assign" ->
            LET value_type == self_infer_expression_type(tc, stmt.value)
                var_type == tc.environment[stmt.name]
            IN  IF stmt.name \notin DOMAIN tc.environment
                THEN TypeErr("Cannot assign to undefined variable")
                ELSE IF value_type.k # "ok" THEN value_type
                ELSE IF ~ types_compatible(value_type.v, var_type)
                THEN Mismatch("Type mismatch in assignment", "assign", <<value_type.v>>,
                              <<{var_type}>>)
                ELSE CheckOk(tc)
      [] stmt.s = "assignfield" ->
            LET obj_type == self_infer_expression_type(tc, stmt.object)
                fields == tc.struct_defs[obj_type.v.name]
                at == find_field(fields, stmt.field)
                value_type == self_infer_expression_type(tc, stmt.value)
            IN  IF obj_type.k # "ok" THEN obj_type
                ELSE IF obj_type.v.ty # "Struct"
                THEN TypeErr("Cannot assign field to non-struct type")
                ELSE IF obj_type.v.name \notin DOMAIN tc.struct_defs THEN CheckOk(tc)
                ELSE IF at = 0 THEN TypeErr("Struct has no field")
                ELSE IF value_type.k # "ok" THEN value_type
                ELSE IF /\ fields[at].type_annotation.some
                        /\ ~ types_compatible(value_type.v, fields[at].type_annotation.x)
                THEN Mismatch("Type mismatch in field assignment", "assignfield",
                              <<value_type.v>>, <<{fields[at].type_annotation.x}>>)
                ELSE CheckOk(tc)
      [] stmt.s = "structdef" ->
            CheckOk([tc EXCEPT !.struct_defs = MapInsert(@, stmt.name, stmt.fields)])
      [] stmt.s = "return" ->
            LET t == self_infer_expression_type(tc, stmt.value.x)
            IN  IF stmt.value.some /\ t.k # "ok" THEN t ELSE CheckOk(tc)
      [] stmt.s = "expr" ->
            LET t == self_infer_expression_type(tc, stmt.expr)
            IN  IF t.k # "ok" THEN t ELSE CheckOk(tc)
      [] OTHER -> CheckOk(tc)

(***************************************************************************)
(* check_program on bounded programs: TypeChecker::new, then one           *)
(* check_statement per step; opCall holds the program, the number of       *)
(* statements checked and the checker's maps, opResult the outcome.        *)
(***************************************************************************)
\* Expressions whose inferred type is Infer, and three that have a type.
InferExprs ==
    {Call(Var("f"), <<>>), Call(Var("f"), <<Num(1)>>), Match(Num(1), <<>>),
     If(Lit(BoolL(TRUE)), Num(1), Some(Lit(BoolL(TRUE)))), FieldAccess(Num(1), "x")}
TypedExprs == {Num(1), Lit(BoolL(TRUE)), Lit(StrL(<<"a">>))}
TypeOperands == InferExprs \cup TypedExprs

StructTyped ==
    [s |-> "structdef", name |-> "P",
     fields |-> <<TypedField("x", Some(TypeInt)), TypedField("y", None)>>,
     methods |-> <<>>]
LetP == Let("p", StructLiteral("P", <<[name |-> "x", value |-> Num(1)],
                                      [name |-> "y", value |-> Num(2)]>>))

\* Programs whose last statement puts e where the checker compares types.
TypeSites(e) ==
    {<<LetTyped("x", t, e)>> : t \in {TypeInt, TypeBool, TypeArray(TypeInt)}}
    \cup {<<Let("x", v), Assign("x", e)>> : v \in {Num(0), Lit(BoolL(FALSE))}}
    \cup {<<StructTyped, LetP, AssignField(Var("p"), f, e)>> : f \in {"x", "y", "z"}}
    \cup {<<Let("p", e), AssignField(Var("p"), "x", Num(1))>>}
    \cup {<<ExprS(Bin(e, op, Lit(BoolL(TRUE))))>> : op \in {"And", "Or"}}
    \cup {<<ExprS(Bin(Lit(BoolL(TRUE)), op, e))>> : op \in {"And", "Or"}}
    \cup {<<ExprS(Un(op, e))>> : op \in UnaryOps}
    \cup {<<Let("a", Lit(ArrayL(<<Num(1)>>))), ExprS(Index(Var("a"), e))>>}
    \cup {<<ExprS(Bin(e, "Mod", Num(2)))>>, <<ExprS(Bin(Num(2), "Mod", e))>>}
    \cup {<<ExprS(Bin(e, "Add", Num(2)))>>, <<Return(Some(e))>>, <<Return(None)>>}
TypePrograms == UNION {TypeSites(e) : e \in TypeOperands}

InitTypeChecker ==
    /\ IdleOps
    /\ IdleInterpreter
    /\ IdleLexer
    /\ IdleDriver

NewTypeChecker ==
    /\ opCall.fn = "idle"
    /\ \E statements \in TypePrograms :
          opCall' = [fn |-> "check_program", statements |-> statements, at |-> 0,
                     environment |-> EmptyMap, struct_defs |-> EmptyMap]
    /\ opResult' = [k |-> "running"]
    /\ UNCHANGED <<interpVars, lexVars, driverVars>>

CheckStatement ==
    /\ opCall.fn = "check_program"
    /\ opResult.k = "running"
    /\ opCall.at < Len(opCall.statements)
    /\ LET tc == [environment |-> opCall.environment, struct_defs |-> opCall.struct_defs]
           r == check_statement(tc, opCall.statements[opCall.at + 1])
       IN  IF r.k = "ok"
           THEN /\ opCall' = [opCall EXCEPT !.at = @ + 1,
                                            !.environment = r.tc.environment,
                                            !.struct_defs = r.tc.struct_defs]
                /\ UNCHANGED opResult
           ELSE /\ opResult' = r
                /\ UNCHANGED opCall
    /\ UNCHANGED <<interpVars, lexVars, driverVars>>

CheckProgramReturns ==
    /\ opCall.fn = "check_program"
    /\ opResult.k = "running"
    /\ opCall.at = Len(opCall.statements)
    /\ opResult' = [k |-> "ok"]
    /\ UNCHANGED <<opCall, interpVars, lexVars, driverVars>>

NextTypeChecker ==
    \/ NewTypeChecker
    \/ CheckStatement
    \/ CheckProgramReturns

SpecTypeChecker == InitTypeChecker /\ [][NextTypeChecker]_vars

(***************************************************************************)
(* main.rs: the subcommands run, build, fmt and check as sequences of      *)
(* stages.  `fails` is the set of stages that fail if they are reached;    *)
(* `ran` the stages run so far; `exit` is "running" until main returns,    *)
(* then "ok" (Ok(()), exit code 0) or "err" (Err(e), a non-zero exit code).*)
(***************************************************************************)
Commands == {"run", "build", "fmt", "check"}

\* The stages of each subcommand in the order main calls them.
stages_of(command) ==
    CASE command = "run" -> <<"read", "tokenize", "parse", "type_check", "interpret">>
      [] command = "build" ->
            <<"read", "tokenize", "parse", "new_compiler", "ast_to_ir", "optimize",
              "generate_code", "write">>
      [] command = "check" -> <<"read", "tokenize", "parse", "type_check">>
      [] OTHER -> <<"format">>

Stages == UNION {{stages_of(c)[i] : i \in 1..Len(stages_of(c))} : c \in Commands}

\* Compiler::compile_to_file: ast_to_ir, optimize, generate_code, fs::write.
CompileStages == {"ast_to_ir", "optimize", "generate_code", "write"}

\* What main prints to stdout once a stage has succeeded.
announces(command, stage) ==
    CASE stage = "read" /\ command = "run" -> <<"Running TOG program">>
      [] stage = "read" /\ command = "build" -> <<"Building TOG program">>
      [] stage = "read" /\ command = "check" -> <<"Checking syntax">>
      [] stage = "write" -> <<"Build complete", "Generated C code">>
      [] stage = "type_check" /\ command = "check" -> <<"Syntax and type check passed!">>
      [] stage = "format" -> <<"Formatting TOG file", "(Formatter coming soon!)">>
      [] OTHER -> <<>>

\* The stage after the n-th, or main's Ok(()) after the last.
advance(d) ==
    IF d.at = Len(stages_of(d.command)) THEN [d EXCEPT !.at = 0, !.exit = "ok"]
    ELSE [d EXCEPT !.at = @ + 1]

\* A type-check failure that ends every subcommand.
type_check_fatal_always(command) == TRUE

\* check: type_checker.check_program(&ast)?;   run: if let Err(e) = ... { eprintln! }
type_check_fatal(command) == command = "check"

run_stage(d) ==
    LET stage == stages_of(d.command)[d.at]
        d1 == [d EXCEPT !.ran = Append(@, stage)]
    IN  IF stage \notin d.fails
        THEN advance([d1 EXCEPT !.stdout = @ \o announces(d.command, stage)])
        ELSE IF stage = "type_check" /\ ~ type_check_fatal(d.command)
        THEN advance([d1 EXCEPT !.stderr = Append(@, "Type check warning")])
        ELSE IF stage \in CompileStages
        THEN [d1 EXCEPT !.stdout = @ \o <<"Build error", "Note">>,
                        !.at = 0, !.exit = "ok"]
        ELSE [d1 EXCEPT !.stderr = Append(@, "Error"), !.at = 0, !.exit = "err"]

current_stage(d) == IF d.at = 0 THEN "none" ELSE stages_of(d.command)[d.at]

InitDriver ==
    /\ \E command \in Commands, fails \in SUBSET Stages :
          /\ Cardinality(fails) <= MaxFailures
          /\ driver = [command |-> command, fails |-> fails, at |-> 1, ran |-> <<>>,
                       stdout |-> <<>>, stderr |-> <<>>, exit |-> "running"]
    /\ IdleOps
    /\ IdleInterpreter
    /\ IdleLexer

ReadSource ==
    /\ driver.exit = "running"
    /\ current_stage(driver) = "read"
    /\ driver' = run_stage(driver)
    /\ UNCHANGED <<interpVars, lexVars, opVars>>

Tokenize ==
    /\ driver.exit = "running"
    /\ current_stage(driver) = "tokenize"
    /\ driver' = run_stage(driver)
    /\ UNCHANGED <<interpVars, lexVars, opVars>>

Parse ==
    /\ driver.exit = "running"
    /\ current_stage(driver) = "parse"
    /\ driver' = run_stage(driver)
    /\ UNCHANGED <<interpVars, lexVars, opVars>>

TypeCheck ==
    /\ driver.exit = "running"
    /\ current_stage(driver) = "type_check"
    /\ driver' = run_stage(driver)
    /\ UNCHANGED <<interpVars, lexVars, opVars>>

Interpret ==
    /\ driver.exit = "running"
    /\ current_stage(driver) = "interpret"
    /\ driver' = run_stage(driver)
    /\ UNCHANGED <<interpVars, lexVars, opVars>>

NewCompiler ==
    /\ driver.exit = "running"
    /\ current_stage(driver) = "new_compiler"
    /\ driver' = run_stage(driver)
    /\ UNCHANGED <<interpVars, lexVars, opVars>>

CompileToFile ==
    /\ driver.exit = "running"
    /\ current_stage(driver) \in CompileStages
    /\ driver' = run_stage(driver)
    /\ UNCHANGED <<interpVars, lexVars, opVars>>

Format ==
    /\ driver.exit = "running"
    /\ current_stage(driver) = "format"
    /\ driver' = run_stage(driver)
    /\ UNCHANGED <<interpVars, lexVars, opVars>>

NextDriver ==
    \/ ReadSource
    \/ Tokenize
    \/ Parse
    \/ TypeCheck
    \/ Interpret
    \/ NewCompiler
    \/ CompileToFile
    \/ Format

SpecDriver == InitDriver /\ [][NextDriver]_vars

(***************************************************************************)
(* Properties.  `Finished` is interpret having returned (or the process    *)
(* having died); Line(n) is the line print(n) writes.                      *)
(***************************************************************************)
Finished == status # "running"
Line(n) == Flatten(IntChars(n))
Lines(ns) == [i \in 1..Len(ns) |-> Line(ns[i])]
Upto(n) == [i \in 1..n |-> i - 1]

RECURSIVE FibValue(_)
FibValue(n) == IF n < 2 THEN n ELSE FibValue(n - 1) + FibValue(n - 2)

\* C1: once a `return` has executed in a function body, no later statement of
\* that body executes and the call yields the returned value: f() of
\* `fn f() { return N  print(9) }` prints nothing and yields N, and fib(n)
\* terminates with the n-th Fibonacci number.
C1_ReturnEndsBody ==
    /\ ~ interpreter.h.afterReturn
    /\ \A n \in Args :
          (program = ProgReturnFirst(n) /\ Finished)
              => (status = "ok" /\ interpreter.out = <<Line(n)>>)
    /\ \A n \in Args :
          (program = ProgFib(n) /\ Finished)
              => (status = "ok" /\ interpreter.out = <<Line(FibValue(n))>>)

\* C2: a `break` or `continue` executed inside a loop body, also inside an `if`
\* block of that body, never becomes an error: the loop of
\* `while i < 3 { if i == K { break } print(i) i = i + 1 }` ends normally having
\* printed 0 .. K-1, and `continue` inside an `if` skips the rest of that pass.
C2_SignalInsideLoop ==
    /\ ~ interpreter.h.loopSigErr
    /\ \A k \in Args :
          (program = ProgBreakInIf(k) /\ Finished)
              => (status = "ok" /\ interpreter.out = Lines(Upto(k)))
    /\ (program = ProgContinueInIf /\ Finished)
              => (status = "ok" /\ interpreter.out = Lines(<<2, 3>>))

\* C3: a `break` or `continue` executed with no enclosing loop is never
\* dropped: a signal raised outside every loop does not stay unanswered, and
\* a program whose first top-level statement is the signal ends in an error.
C3_SignalOutsideLoopIsError ==
    /\ interpreter.h.sigPending # "outside"
    /\ \A sig \in Signals :
          (program = ProgTopLevelSignal(sig) /\ Finished) => status = "error"

\* C4: a function value created in a call of an enclosing function and
\* returned from it resolves that call's parameters and lets when it is called
\* after the call has returned: `outer(A)` with `let b = B` returns a function
\* that yields A + B, and a returned `get` sees the later assignment to the
\* parameter it closes over, not the caller's variable of the same name.
C4_ClosureResolvesEnclosingLocals ==
    \A a \in Args, b \in Args :
        /\ (program = ProgClosure(a, b) /\ Finished)
              => (status = "ok" /\ interpreter.out = <<Line(a + b)>>)
        /\ (program = ProgClosureShared(a, b) /\ Finished)
              => (status = "ok" /\ interpreter.out = <<Line(a + b)>>)

\* A run of ProgClosure(1, 2) has ended having printed 3.
C4_Witness ==
    /\ program = ProgClosure(1, 2)
    /\ status = "ok"
    /\ interpreter.out = <<"3">>

\* C5: the frame of a call has the callee's defining frame as its parent, not
\* the caller's: a variable bound only in the caller's frame is undefined in
\* the callee (a runtime error, nothing printed), and where the global frame
\* binds the name too the callee reads the global binding.
C5_CallFrameParentIsDefiningFrame ==
    /\ \A x \in Args :
          (program = ProgCallerLocal(x) /\ Finished)
              => /\ status = "error"
                 /\ interpreter.h.error = <<"RuntimeError", "Undefined variable">>
                 /\ interpreter.out = <<>>
    /\ \A g \in Args, x \in Args :
          (program = ProgCallerShadow(g, x) /\ Finished)
              => (status = "ok" /\ interpreter.out = <<Line(g)>>)

\* A run of `fn g() { x }  fn f() { let x = 1  g() }  fn main() { print(f()) }`
\* has ended in the error of the undefined variable.
C5_Witness ==
    /\ program = ProgCallerLocal(1)
    /\ status = "error"
    /\ interpreter.h.error = <<"RuntimeError", "Undefined variable">>

\* C6: a binary operation, a unary operation or an index expression on
\* evaluated operands returns a value or a TogError, whatever the operands:
\* it never aborts the process.
C6_OperationsNeverAbort ==
    opCall.fn # "idle" => opResult.k \in {"ok", "err"}

\* C7: every iteration of tokenize's main loop that does not return consumes
\* one character or more, so the loop has ended after at most as many
\* iterations as the source has characters; and an Ok result ends with Eof.
C7_TokenizeTerminates ==
    /\ lexState = "scan" => lexSteps <= pos
    /\ lexSteps <= Len(source)
    /\ lexState = "ok" => (tokens # <<>> /\ tokens[Len(tokens)] = Eof)

\* C8: two runs on the same program print the same lines and end the same
\* way: what this run printed and how it ended is what a run on any other
\* host of the same build prints and how it ends.
C8_RunsAgree ==
    Finished =>
        \A h \in Hosts :
            h.overflowChecks = interpreter.host.overflowChecks
                => interpret(program, h) = [status |-> status, out |-> interpreter.out]

\* The steps of interpret: which statement a step executes and when main is
\* invoked.
C9_StepOrder ==
    /\ (pc' # pc) => (pc' = pc + 1 /\ pc <= Len(program) /\ mainCalls = 0)
    /\ (mainCalls' # mainCalls) =>
          /\ mainCalls = 0 /\ mainCalls' = 1
          /\ pc = Len(program) + 1
          /\ main_info(interpreter).some
          /\ Len(interpreter'.frames) > Len(interpreter.frames)
          /\ interpreter'.frames[Len(interpreter.frames) + 1].enclosing =
                main_info(interpreter).x.closure

\* How a run of interpret that has ended relates to what it did.
C9_Outcome ==
    /\ mainCalls <= 1
    /\ status = "ok" =>
          /\ pc = Len(program) + 1
          /\ mainCalls = IF main_info(interpreter).some THEN 1 ELSE 0
    /\ (Finished /\ pc <= Len(program)) => mainCalls = 0
    /\ (program = ProgLet /\ status = "ok") => interpreter.out = <<"14">>
    /\ (program = ProgTopLevelError /\ Finished) =>
          (status = "error" /\ interpreter.out = <<"0">>)

\* C9: interpret executes the top-level statements in source order, each
\* once; main is invoked only after the last of them succeeded and only if
\* the global frame then binds `main` to a function value, once, in a new
\* frame whose parent is main's captured environment; a run that succeeded
\* has done all of this, and one that failed at a top-level statement has
\* never invoked main.
C9_MainAfterTopLevel == [](C9_Outcome) /\ [][C9_StepOrder]_vars

\* A run of `let x = 2 + 3 * 4  fn main() { print(x) }` has executed its two
\* top-level statements, found `main` bound to a function and run it once.
C9_Witness ==
    /\ program = ProgLet
    /\ pc = Len(program) + 1
    /\ mainCalls = 1
    /\ status = "ok"
    /\ interpreter.out = <<"14">>

\* C10: when a `for` loop has ended - the iterable exhausted, a `break`, or
\* a `continue` in the last pass - the loop variable resolves as it did
\* before the loop: `let i = 7  for i in [1, 2] { ... }  print(i)` prints 7 last,
\* and after `for i in "ab" { ... }` with no earlier i, `print(i)` fails.
C10_ForRestoresVariable ==
    /\ ~ interpreter.h.forLeak
    /\ \A body \in ForBodies :
          /\ (program = ProgForBound(body) /\ Finished)
                => /\ status = "ok"
                   /\ interpreter.out[Len(interpreter.out)] = "7"
          /\ (program = ProgForUnbound(body) /\ Finished)
                => /\ status = "error"
                   /\ interpreter.h.error = <<"RuntimeError", "Undefined variable">>

\* C11: in an instance method call on a struct value, `self` resolves to that
\* struct value in the method body, whatever the parameter list and the
\* argument list: p.sum() of `fn sum(self)` yields x + y, and p.add(K) of
\* `fn add(self, k) { return self.x + k }` yields x + K.
C11_SelfIsTheObject ==
    /\ ~ interpreter.h.selfRebound
    /\ \A x \in Args, y \in Args :
          (program = ProgMethod(x, y) /\ Finished)
              => (status = "ok" /\ interpreter.out = <<Line(x + y)>>)
    /\ \A x \in Args, k \in Args :
          (program = ProgMethodArg(x, k) /\ Finished)
              => (status = "ok" /\ interpreter.out = <<Line(x + k)>>)

C13_FoldingPreservesEvaluation ==
    (opCall.fn = "fold_constant_expr" /\ opResult.k = "ok")
        => \A binding \in Bindings :
              evaluate_ir(opResult.v, binding, opCall.checks)
                  = evaluate_ir(opCall.expr, binding, opCall.checks)

\* (0 - IntMax) / 2 was folded to the literal of the truncated quotient.
C13_Witness ==
    /\ opCall.fn = "fold_constant_expr"
    /\ opCall.expr = IrBinaryOp(IrBinaryOp(IrNum(0), "Sub", IrNum(IntMax)), "Div", IrNum(2))
    /\ opResult = OkP(IrNum(0 - (IntMax \div 2)))

\* The names reachable through call expressions from a set of names.
RECURSIVE ReachableFrom(_, _)
ReachableFrom(functions, names) ==
    LET called == UNION {find_function_calls(functions[i].body) :
                           i \in {j \in 1..Len(functions) : functions[j].name \in names}}
        more == names \cup called
    IN  IF more = names THEN names ELSE ReachableFrom(functions, more)

FunctionNames(functions) == {functions[i].name : i \in 1..Len(functions)}

RECURSIVE NoStatementAfterReturn(_)
NoStatementAfterReturn(block) ==
    block.b = "block"
        => \A i \in 1..Len(block.statements) :
              LET stmt == block.statements[i]
              IN  /\ stmt.st = "return" => i = Len(block.statements)
                  /\ stmt.st = "if" =>
                        /\ NoStatementAfterReturn(stmt.then_branch)
                        /\ stmt.else_branch.some
                              => NoStatementAfterReturn(stmt.else_branch.x)
                  /\ stmt.st = "while" => NoStatementAfterReturn(stmt.body)

\* The statements up to the first return of the block are all there, in their
\* order, each as it was but for the blocks nested in it, for which the same holds.
RECURSIVE KeptInOrder(_, _)
KeptInOrder(before, after) ==
    IF before.b # "block" THEN after = before
    ELSE LET returns == {i \in 1..Len(before.statements) :
                            before.statements[i].st = "return"}
             kept == IF returns = {} THEN Len(before.statements)
                     ELSE CHOOSE i \in returns : \A j \in returns : i <= j
         IN  /\ after.b = "block"
             /\ Len(after.statements) = kept
             /\ \A i \in 1..kept :
                   LET old == before.statements[i]
                       new == after.statements[i]
                   IN  CASE old.st = "if" ->
                              /\ new.st = "if"
                              /\ new.condition = old.condition
                              /\ KeptInOrder(old.then_branch, new.then_branch)
                              /\ new.else_branch.some = old.else_branch.some
                              /\ old.else_branch.some
                                    => KeptInOrder(old.else_branch.x, new.else_branch.x)
                         [] old.st = "while" ->
                              /\ new.st = "while"
                              /\ new.condition = old.condition
                              /\ KeptInOrder(old.body, new.body)
                         [] OTHER -> new = old

\* C15: after dead code elimination no statement follows a return in any
\* block of any remaining function, blocks nested in if and while included,
\* and the statements up to the first return of each block keep their order.
C15_NothingAfterReturn ==
    opCall.fn = "dead_code_elimination"
        => \A i \in 1..Len(opResult.v.functions) :
              LET after == opResult.v.functions[i]
                  before == opCall.program.functions[
                                position(opCall.program.functions, after.name)]
              IN  /\ NoStatementAfterReturn(after.body)
                  /\ KeptInOrder(before.body, after.body)

\* main's body  a = 1; <if with returns inside>; return; g()  keeps its first
\* three statements, the nested blocks cut after their returns.
C15_Witness ==
    /\ opCall.fn = "dead_code_elimination"
    /\ opCall.program = ProgDce(<<IrLet("a", IrNum(1)), NestedReturn, IrReturn(None)>>,
                                FALSE, FALSE)
    /\ Len(opResult.v.functions[1].body.statements) = 3
    /\ opResult.v.functions[1].body.statements[2].then_branch
          = IrBlockBlock(<<IrWhile(IrVariable("x"),
                                   IrBlockBlock(<<IrLet("b", IrNum(1)), IrReturn(None)>>)),
                           IrReturn(Some(IrNum(2)))>>)
    /\ opResult.v.functions[1].body.statements[2].else_branch
          = Some(IrBlockBlock(<<IrReturn(None)>>))

C17_CalleesAreKnown ==
    (opCall.fn = "ast_to_ir" /\ opResult.k = "ok")
        => \A i \in 1..Len(opResult.v.functions) :
              \A callee \in find_function_calls(opResult.v.functions[i].body) :
                  \/ callee \in FunctionNames(opResult.v.functions)
                  \/ is_builtin_function(callee)

\* C18: ast_to_ir takes a top-level function definition and a top-level let
\* with a literal initializer; any other top-level statement is left out and
\* the lowering does not fail: the program with such a statement lowers to
\* the IR of the program without it.
C18_OtherTopLevelOmitted ==
    opCall.fn = "ast_to_ir"
        => \A stmt \in OtherTopLevel :
              opCall.program = ProgTopLevel(stmt)
                  => /\ opResult.k = "ok"
                     /\ opResult = ast_to_ir(<<Let("g", Num(1)),
                                               Fn("main", <<>>, <<Say(Var("g"))>>)>>)

\* The stages run so far.
Ran == {driver.ran[i] : i \in 1..Len(driver.ran)}

\* C19: in run mode a failed type check is a warning and the evaluator still
\* runs; in check mode the failure is the command's error and nothing runs
\* or is printed after the type check.
C19_TypeCheckAdvisoryInRun ==
    ("type_check" \in Ran /\ "type_check" \in driver.fails)
        => /\ driver.command = "run" =>
                /\ driver.stderr[1] = "Type check warning"
                /\ driver.exit # "running" => "interpret" \in Ran
           /\ driver.command = "check" =>
                /\ driver.exit = "err"
                /\ driver.ran[Len(driver.ran)] = "type_check"
                /\ driver.stdout = <<"Checking syntax">>

\* run: the type check failed, the interpreter ran and main returned Ok(()).
C19_Witness ==
    /\ driver.command = "run"
    /\ driver.fails = {"type_check"}
    /\ driver.ran = <<"read", "tokenize", "parse", "type_check", "interpret">>
    /\ driver.stderr = <<"Type check warning">>
    /\ driver.exit = "ok"

\* C20: a subcommand whose stage failed ends with a failure result; in
\* particular build does when lowering, optimization, code generation or
\* writing the output fails.  (The type check of run is no such stage: its
\* failure is a warning.)
C20_StageFailureFailsCommand ==
    (driver.exit \in {"ok", "err"}
     /\ \E stage \in Ran \cap driver.fails :
            ~ (stage = "type_check" /\ driver.command = "run"))
        => driver.exit = "err"

\* C22: when the body of a `for` loop fails, the error is the result of the
\* loop and the loop variable resolves as it did before the loop: after
\* `let i = 7  for i in [1, 2] { print(2 / (i - N)) }` has failed in pass N,
\* i is 7; after `for i in "ab" { print(y) }` has failed, i is unbound.
C22_ForErrorRestoresVariable ==
    /\ ~ interpreter.h.forErrLeak
    /\ \A n \in {1, 2} :
          (program = ProgForError(n) /\ Finished)
              => /\ status = "error"
                 /\ interpreter.h.error = <<"RuntimeError", "Division by zero">>
                 /\ get(interpreter.frames, 1, "i") = OkP(IntV(7))
    /\ (program = ProgForErrorUnbound /\ Finished)
          => /\ status = "error"
             /\ interpreter.h.error = <<"RuntimeError", "Undefined variable">>
             /\ get(interpreter.frames, 1, "i").k = "err"

C25_BlockValue ==
    \A n \in Args :
        /\ (program = ProgBlockValue("expr", n) /\ Finished)
              => (status = "ok" /\ interpreter.out = <<Line(n + 1)>>)
        /\ \A kind \in BlockEnds \ {"expr"} :
              (program = ProgBlockValue(kind, n) /\ Finished)
                  => (status = "ok" /\ interpreter.out = <<"none">>)
        /\ (program = ProgBlockFieldAssign(n) /\ Finished)
              => (status = "ok" /\ interpreter.out = <<"none">>)

\* Whether an operation on two integer literals with one of + - * / == !=
\* stands at some expression position of the expression, statement or block.
RECURSIVE HasFoldable(_)
HasFoldable(expr) ==
    CASE expr.x = "bin" ->
            \/ /\ expr.left.x = "lit" /\ expr.left.value.v = "int"
               /\ expr.right.x = "lit" /\ expr.right.value.v = "int"
               /\ expr.op \in {"Add", "Sub", "Mul", "Div", "Eq", "Ne"}
            \/ HasFoldable(expr.left)
            \/ HasFoldable(expr.right)
      [] expr.x = "un" -> HasFoldable(expr.expr)
      [] expr.x = "call" -> \E i \in 1..Len(expr.args) : HasFoldable(expr.args[i])
      [] expr.x = "index" -> HasFoldable(expr.base) \/ HasFoldable(expr.index)
      [] OTHER -> FALSE

RECURSIVE BlockHasFoldable(_)
StmtHasFoldable(stmt) ==
    CASE stmt.st \in {"let", "assign"} -> HasFoldable(stmt.value)
      [] stmt.st = "return" -> stmt.value.some /\ HasFoldable(stmt.value.x)
      [] stmt.st = "expr" -> HasFoldable(stmt.expr)
      [] stmt.st = "if" ->
            \/ HasFoldable(stmt.condition)
            \/ BlockHasFoldable(stmt.then_branch)
            \/ stmt.else_branch.some /\ BlockHasFoldable(stmt.else_branch.x)
      [] stmt.st = "while" -> HasFoldable(stmt.condition) \/ BlockHasFoldable(stmt.body)
      [] OTHER -> FALSE
BlockHasFoldable(block) ==
    IF block.b = "block"
    THEN \E i \in 1..Len(block.statements) : StmtHasFoldable(block.statements[i])
    ELSE HasFoldable(block.expr)

\* C26: when constant folding has succeeded on a program, no function body
\* holds, at any expression position, a binary operation + - * / == != whose
\* operands are both integer literals.
C26_NoFoldableOperationRemains ==
    (opCall.fn = "constant_folding" /\ opResult.k = "ok")
        => \A i \in 1..Len(opResult.v.functions) :
              ~ BlockHasFoldable(opResult.v.functions[i].body)

\* C28: when a call expression has finished, with a value or with an error,
\* the frame current before the call is current again, for function values,
\* static methods and instance methods; a call with the wrong number of
\* arguments fails without a frame having been made.
C28_CallRestoresEnvironment ==
    /\ ~ interpreter.h.callMoved
    /\ \A kind \in CallKinds :
          (program = ProgCallFails(kind) /\ Finished)
              => /\ status = "error"
                 /\ interpreter.environment = 2
                 /\ kind = "arity" => Len(interpreter.frames) = 2

\* The instance method call q.bad() has failed in its body, in a frame of its
\* own, and main's frame is current.
C28_Witness ==
    /\ program = ProgCallFails("instance")
    /\ status = "error"
    /\ interpreter.h.error = <<"RuntimeError", "Division by zero">>
    /\ Len(interpreter.frames) = 3
    /\ interpreter.environment = 2

\* C29: a `let x = e` run in a call frame binds x in that frame only, and a
\* lookup yields the innermost binding on the chain: with `let x = G` at top
\* level, `fn f() { let x = X  return x }` yields X and the top-level x is
\* still G after the call.
C29_LetDefinesInCurrentFrame ==
    \A g \in Args, x \in Args :
        (program = ProgLetInCall(g, x) /\ Finished)
            => (status = "ok" /\ interpreter.out = <<Line(x), Line(g)>>)

\* A run of ProgLetInCall(1, 2) has ended having printed 2, then 1.
C29_Witness ==
    /\ program = ProgLetInCall(1, 2)
    /\ status = "ok"
    /\ interpreter.out = <<"2", "1">>

\* C30: after `p.x = V` on a struct p, p.x is V, p.y is what it was and the
\* copy q made by `let q = p` before still has the old x; on a p that is no
\* struct the statement is a runtime error and p and q are bound as before.
C30_FieldAssignment ==
    \A x \in Args :
        /\ \A v \in Args :
              (program = ProgAssignField(x, v) /\ Finished)
                  => (status = "ok" /\ interpreter.out = <<Line(v), "1", Line(x)>>)
        /\ (program = ProgAssignFieldNonStruct(x) /\ Finished)
              => /\ status = "error"
                 /\ interpreter.h.error
                      = <<"RuntimeError", "Cannot assign field to non-struct value">>
                 /\ interpreter.out = <<>>
                 /\ get(interpreter.frames, interpreter.environment, "p") = OkP(IntV(x))
                 /\ get(interpreter.frames, interpreter.environment, "q") = OkP(IntV(x))

\* A run of ProgAssignField(1, 2) has ended having printed 2, 1, 1.
C30_Witness ==
    /\ program = ProgAssignField(1, 2)
    /\ status = "ok"
    /\ interpreter.out = <<"2", "1", "1">>

RECURSIVE ir_variables(_)
ir_variables(expr) ==
    CASE expr.x = "var" -> {expr.name}
      [] expr.x = "bin" -> ir_variables(expr.left) \cup ir_variables(expr.right)
      [] expr.x = "un" -> ir_variables(expr.expr)
      [] expr.x = "call" -> UNION {ir_variables(expr.args[i]) : i \in 1..Len(expr.args)}
      [] expr.x = "index" -> ir_variables(expr.base) \cup ir_variables(expr.index)
      [] OTHER -> {}
references_parameters(func) ==
    \E j \in 1..Len(func.params) : func.params[j] \in ir_variables(func.body.expr)
WithinDepth(ir_program) ==
    observe(ir_program).k = "err" => observe(ir_program).v.kind # "Depth"

ClaimedSites == {"let", "assign", "assignfield", "logical", "not", "negation", "index",
                 "modulo"}

\* C21: the type checker never rejects, at a let annotation, an assignment, a
\* field assignment, an operand of && or ||, of !, of unary -, of %, or an index
\* position, for the sake of an expression whose inferred type is Infer: every
\* such rejection has an operand or value that is not Infer and not of a type
\* the check accepts.
C21_InferUnifiesWithAny ==
    (opCall.fn = "check_program" /\ opResult.k = "err" /\ "site" \in DOMAIN opResult
        /\ opResult.site \in ClaimedSites)
        => \E i \in 1..Len(opResult.got) :
              opResult.got[i] # TypeInfer /\ opResult.got[i] \notin opResult.want[i]

====
